---- MODULE Spec2Model ----
(***************************************************************************)
(* A model of the index generators of the fallout2-modding website:        *)
(*   website/scripts/generate-function-index.js                            *)
(*   website/scripts/generate-define-index.js                              *)
(* Text is modelled as sequences of one-character strings, so that         *)
(* toLowerCase, the prefix tests and the CamelCase conversion are computed *)
(* character by character.  A source line is a record naming its lexical   *)
(* shape (what the regular expressions of the scripts look at) and the     *)
(* braces it holds, in order.  A JavaScript object is an ordered map: a    *)
(* sequence of [k, v] pairs with pairwise distinct keys, in insertion      *)
(* order, which is the order Object.entries and JSON.stringify follow.     *)
(***************************************************************************)
EXTENDS Integers, Sequences, FiniteSets, TLC

VARIABLES
    gen,                  \* which script is run: "function" or "define"
    pc,                   \* the position of main()
    autoConfirm, dryRun, validateOnly,   \* the parsed flags
    malformed,            \* the command line held a token the parser skipped
    checkout,             \* the snapshot the run reads: [files, rev]
    fileIdx,              \* number of source files scanned so far
    allFunctions, allSslNames, opcodeMappings, allMetaruleFunctions,
    index,                \* the index assembled by the run
    changes,              \* the result of compareIndices
    artifact,             \* OUTPUT_FILE on disk
    exitCode,             \* process exit status of the last finished run
    now,                  \* the clock read by new Date()
    artifactAtStart,      \* history: OUTPUT_FILE when the run started
    prompted,             \* history: askConfirmation was called in this run
    answer,               \* history: the line typed at the prompt
    writes,               \* history: number of writeFileSync calls in this run
    persistedFrom,        \* history: the checkout the artifact was written from
    fnArg, fnRet          \* input and result of a function applied on its own

vars == <<gen, pc, autoConfirm, dryRun, validateOnly, malformed, checkout,
          fileIdx, allFunctions, allSslNames, opcodeMappings,
          allMetaruleFunctions, index, changes, artifact, exitCode, now,
          artifactAtStart, prompted, answer, writes, persistedFrom, fnArg, fnRet>>

(***************************************************************************)
(* Characters and strings                                                  *)
(***************************************************************************)
LowerChars == <<"a","b","c","d","e","f","g","h","i","j","k","l","m",
                "n","o","p","q","r","s","t","u","v","w","x","y","z">>
UpperChars == <<"A","B","C","D","E","F","G","H","I","J","K","L","M",
                "N","O","P","Q","R","S","T","U","V","W","X","Y","Z">>
DigitChars == <<"0","1","2","3","4","5","6","7","8","9">>
\* The characters of the model in UTF-16 code unit order.
CharOrder == <<" ", ";">> \o DigitChars \o UpperChars \o <<"_">> \o LowerChars

Range(s) == {s[i] : i \in DOMAIN s}
Min(a, b) == IF a <= b THEN a ELSE b
IsLower(c) == c \in Range(LowerChars)
IsUpper(c) == c \in Range(UpperChars)
IsDigit(c) == c \in Range(DigitChars)
\* \w
IsWord(c) == IsLower(c) \/ IsUpper(c) \/ IsDigit(c) \/ c = "_"
\* [a-z0-9_]
IsLowerWord(c) == IsLower(c) \/ IsDigit(c) \/ c = "_"
IndexOf(c, s) == CHOOSE i \in DOMAIN s : s[i] = c

RECURSIVE MapSeq(_, _)
MapSeq(F(_), s) == IF s = <<>> THEN <<>> ELSE <<F(Head(s))>> \o MapSeq(F, Tail(s))

toLowerCaseChar(c) == IF IsUpper(c) THEN LowerChars[IndexOf(c, UpperChars)] ELSE c
toLowerCase(s) == MapSeq(toLowerCaseChar, s)

startsWith(s, p) == Len(s) >= Len(p) /\ SubSeq(s, 1, Len(p)) = p
\* s.slice(n)
slice(s, n) == SubSeq(s, n + 1, Len(s))
AllChars(P(_), s) == \A i \in DOMAIN s : P(s[i])
\* the longest prefix of s whose characters all satisfy P
RECURSIVE TakeWhile(_, _)
TakeWhile(P(_), s) ==
    IF s = <<>> \/ ~P(Head(s)) THEN <<>> ELSE <<Head(s)>> \o TakeWhile(P, Tail(s))

\* s < t in the order of Array.prototype.sort (UTF-16 code units)
RECURSIVE StrLess(_, _)
StrLess(s, t) ==
    IF t = <<>> THEN FALSE
    ELSE IF s = <<>> THEN TRUE
    ELSE IF Head(s) = Head(t) THEN StrLess(Tail(s), Tail(t))
    ELSE IndexOf(Head(s), CharOrder) < IndexOf(Head(t), CharOrder)

(***************************************************************************)
(* JavaScript objects as ordered maps                                      *)
(***************************************************************************)
Keys(m) == {m[i].k : i \in DOMAIN m}
Has(m, key) == key \in Keys(m)
Get(m, key) == m[CHOOSE i \in DOMAIN m : m[i].k = key].v
\* m[key] = val: an existing key keeps its place, a new key goes last
Put(m, key, val) ==
    IF Has(m, key)
    THEN [i \in DOMAIN m |-> IF m[i].k = key THEN [k |-> key, v |-> val] ELSE m[i]]
    ELSE Append(m, [k |-> key, v |-> val])
\* Object.assign(target, src): every own property of src is set on target
RECURSIVE ObjectAssign(_, _)
ObjectAssign(target, src) ==
    IF src = <<>> THEN target
    ELSE ObjectAssign(Put(target, Head(src).k, Head(src).v), Tail(src))

(***************************************************************************)
(* Names of the model, spelt out as character sequences                    *)
(***************************************************************************)
N_opGetSelf == <<"o","p","G","e","t","S","e","l","f">>
N_opSuccess == <<"o","p","S","u","c","c","e","s","s">>
N_opMetarule == <<"o","p","M","e","t","a","r","u","l","e">>
N_op_sqrt == <<"o","p","_","s","q","r","t">>
N_opFoo == <<"o","p","F","o","o">>
N_opBar == <<"o","p","B","a","r">>
N_opfoo == <<"o","p","f","o","o">>
N_scriptMain == <<"s","c","r","i","p","t","M","a","i","n">>
N_self_obj == <<"s","e","l","f","_","o","b","j">>
N_dude_obj == <<"d","u","d","e","_","o","b","j">>
N_success == <<"s","u","c","c","e","s","s">>
N_foo == <<"f","o","o">>
N_bar == <<"b","a","r">>
N_op_self_obj == <<"o","p","_","s","e","l","f","_","o","b","j">>
N_op_dude_obj == <<"o","p","_","d","u","d","e","_","o","b","j">>
N_0x455600 == <<"0","x","4","5","5","6","0","0">>

\* const SSL_COMMENT_OVERRIDES: native name -> SSL name
SSL_COMMENT_OVERRIDES == <<
    [k |-> <<"o","p","_","s","f","a","l","l","_","f","u","n","c","7">>,
     v |-> <<"s","f","a","l","l","_","f","u","n","c","7">>],
    [k |-> <<"o","p","_","s","f","a","l","l","_","f","u","n","c","8">>,
     v |-> <<"s","f","a","l","l","_","f","u","n","c","8">>],
    [k |-> <<"o","p","S","u","c","c","e","s","s">>,
     v |-> <<"i","s","_","s","u","c","c","e","s","s">>],
    [k |-> <<"o","p","C","r","i","t","i","c","a","l">>,
     v |-> <<"i","s","_","c","r","i","t","i","c","a","l">>],
    [k |-> <<"o","p","_","t","y","p","e","_","o","f">>,
     v |-> <<"t","y","p","e","o","f">>],
    [k |-> <<"o","p","W","o","r","l","d","m","a","p">>,
     v |-> <<"w","o","r","l","d","_","m","a","p">>],
    [k |-> <<"_","o","p","_","g","d","i","a","l","o","g","_","b","a","r","t","e","r">>,
     v |-> <<"g","d","i","a","l","o","g","_","m","o","d","_","b","a","r","t","e","r">>]
>>

\* const METARULE_SSL_NAMES: dispatch key -> SSL name
METARULE_SSL_NAMES == <<
    [k |-> "METARULE_SIGNAL_END_GAME",
     v |-> <<"s","i","g","n","a","l","_","e","n","d","_","g","a","m","e">>],
    [k |-> "METARULE_FIRST_RUN",
     v |-> <<"m","a","p","_","f","i","r","s","t","_","r","u","n">>],
    [k |-> "METARULE_ELEVATOR",
     v |-> <<"e","l","e","v","a","t","o","r">>],
    [k |-> "METARULE_PARTY_COUNT",
     v |-> <<"p","a","r","t","y","_","m","e","m","b","e","r","_","c","o","u","n","t">>],
    [k |-> "METARULE_AREA_KNOWN",
     v |-> <<"t","o","w","n","_","k","n","o","w","n">>],
    [k |-> "METARULE_WHO_ON_DRUGS",
     v |-> <<"d","r","u","g","_","i","n","f","l","u","e","n","c","e">>],
    [k |-> "METARULE_MAP_KNOWN",
     v |-> <<"m","a","p","_","i","s","_","k","n","o","w","n">>],
    [k |-> "METARULE_IS_LOADGAME",
     v |-> <<"i","s","_","l","o","a","d","i","n","g","_","g","a","m","e">>],
    [k |-> "METARULE_CAR_CURRENT_TOWN",
     v |-> <<"c","a","r","_","c","u","r","r","e","n","t","_","t","o","w","n">>],
    [k |-> "METARULE_GIVE_CAR_TO_PARTY",
     v |-> <<"c","a","r","_","g","i","v","e","_","t","o","_","p","a","r","t","y">>],
    [k |-> "METARULE_GIVE_CAR_GAS",
     v |-> <<"c","a","r","_","g","i","v","e","_","g","a","s">>],
    [k |-> "METARULE_SKILL_CHECK_TAG",
     v |-> <<"i","s","_","s","k","i","l","l","_","t","a","g","g","e","d">>],
    [k |-> "METARULE_DROP_ALL_INVEN",
     v |-> <<"o","b","j","_","d","r","o","p","_","e","v","e","r","y","t","h","i","n","g">>],
    [k |-> "METARULE_INVEN_UNWIELD_WHO",
     v |-> <<"i","n","v","e","n","_","u","n","w","i","e","l","d">>],
    [k |-> "METARULE_GET_WORLDMAP_XPOS",
     v |-> <<"w","o","r","l","d","_","m","a","p","_","x","_","p","o","s">>],
    [k |-> "METARULE_GET_WORLDMAP_YPOS",
     v |-> <<"w","o","r","l","d","_","m","a","p","_","y","_","p","o","s">>],
    [k |-> "METARULE_CURRENT_TOWN",
     v |-> <<"c","u","r","_","t","o","w","n">>],
    [k |-> "METARULE_LANGUAGE_FILTER",
     v |-> <<"l","a","n","g","u","a","g","e","_","f","i","l","t","e","r","_","i","s","_","o","n">>],
    [k |-> "METARULE_VIOLENCE_FILTER",
     v |-> <<"v","i","o","l","e","n","c","e","_","l","e","v","e","l","_","s","e","t","t","i","n","g">>],
    [k |-> "METARULE_WEAPON_DAMAGE_TYPE",
     v |-> <<"w","e","a","p","o","n","_","d","a","m","a","g","e","_","t","y","p","e">>],
    [k |-> "METARULE_CRITTER_BARTERS",
     v |-> <<"c","r","i","t","t","e","r","_","b","a","r","t","e","r","s">>],
    [k |-> "METARULE_CRITTER_KILL_TYPE",
     v |-> <<"c","r","i","t","t","e","r","_","k","i","l","l","_","t","y","p","e">>],
    [k |-> "METARULE_SET_CAR_CARRY_AMOUNT",
     v |-> <<"s","e","t","_","c","a","r","_","c","a","r","r","y","_","a","m","o","u","n","t">>],
    [k |-> "METARULE_GET_CAR_CARRY_AMOUNT",
     v |-> <<"g","e","t","_","c","a","r","_","c","a","r","r","y","_","a","m","o","u","n","t">>]
>>

(***************************************************************************)
(* Source lines.  kind says which of the scripts' line patterns the line   *)
(* can match:                                                              *)
(*   "fndef"   ^[static ]<ret> <name>(<params>) at column 0                *)
(*   "comment" a line that, trimmed, is // followed by text                *)
(*   "blank"   a line that is empty once trimmed                           *)
(*   "reg"     interpreterRegisterOpcode(<key>, <name>)<sep>// <text>      *)
(*   "case"    case <key>:      "default"  default:      "break"  break;   *)
(*   "close"   a line holding only a closing brace                         *)
(*   "code"    any other line                                              *)
(* braces lists the { and } characters of the line, left to right.         *)
(***************************************************************************)
Line(kind, name, ret, params, text, sep, key, braces) ==
    [kind |-> kind, name |-> name, ret |-> ret, params |-> params,
     text |-> text, sep |-> sep, key |-> key, braces |-> braces]
Blank == Line("blank", <<>>, "", "", <<>>, <<>>, "", <<>>)
Comment(text) == Line("comment", <<>>, "", "", text, <<>>, "", <<>>)
FnDef(ret, name, params, braces) == Line("fndef", name, ret, params, <<>>, <<>>, "", braces)
Reg(key, name, sep, text) == Line("reg", name, "", "", text, sep, key, <<>>)
Case(key, braces) == Line("case", <<>>, "", "", <<>>, <<>>, key, braces)
Default == Line("default", <<>>, "", "", <<>>, <<>>, "", <<>>)
Break == Line("break", <<>>, "", "", <<>>, <<>>, "", <<>>)
Close == Line("close", <<>>, "", "", <<>>, <<>>, "", <<"}">>)
Code(braces) == Line("code", <<>>, "", "", <<>>, <<>>, "", braces)

\* op[A-Z][a-zA-Z0-9_]*
IsCamelOpName(n) ==
    /\ Len(n) >= 3 /\ startsWith(n, <<"o","p">>) /\ IsUpper(n[3])
    /\ AllChars(IsWord, slice(n, 3))
\* <prefix>[a-z][a-z0-9_]*
IsSnakeName(n, prefix) ==
    /\ Len(n) > Len(prefix) /\ startsWith(n, prefix) /\ IsLower(n[Len(prefix) + 1])
    /\ AllChars(IsLowerWord, slice(n, Len(prefix)))
\* Some pattern of OPCODE_PATTERNS matches the line; the name is its capture.
OPCODE_PATTERNS(line) ==
    /\ line.kind = "fndef" /\ line.ret = "void"
    /\ \/ /\ line.params = "Program*"
          /\ \/ IsCamelOpName(line.name)
             \/ IsSnakeName(line.name, <<"o","p","_">>)
             \/ IsSnakeName(line.name, <<"_","o","p","_">>)
       \/ /\ line.params = "Program*,int"
          /\ IsSnakeName(line.name, <<"m","f","_">>)
\* (script|builtin)[A-Z][a-zA-Z0-9_]*
IsScriptName(n, prefix) ==
    /\ Len(n) > Len(prefix) /\ startsWith(n, prefix) /\ IsUpper(n[Len(prefix) + 1])
    /\ AllChars(IsWord, slice(n, Len(prefix)))
SCRIPT_FUNCTION_PATTERNS(line) ==
    /\ line.kind = "fndef" /\ line.ret \in {"int", "void", "bool"}
    /\ \/ IsScriptName(line.name, <<"s","c","r","i","p","t">>)
       \/ IsScriptName(line.name, <<"b","u","i","l","t","i","n">>)
\* The capture of SSL_COMMENT_PATTERN on the trimmed line, <<>> when it fails.
SSL_COMMENT_PATTERN(line) ==
    IF line.kind = "comment" /\ line.text # <<>> /\ IsLower(line.text[1])
    THEN TakeWhile(IsLowerWord, line.text)
    ELSE <<>>

\* The window of findFunctionEnd's default and the reach of the look-back.
FallbackWindow == 50
LookBackLimit == 3

\* The loops of findFunctionEnd from line index i (0-based), character j:
\* the 1-indexed line of the closing brace, or 0 when the lines run out.
\* Lines without a brace change neither count nor flag: the outer loop is
\* taken straight to the next line that holds one.
RECURSIVE ScanBraces(_, _, _, _, _)
ScanBraces(lines, i, j, braceCount, foundOpenBrace) ==
    IF i >= Len(lines) THEN 0
    ELSE IF j > Len(lines[i + 1].braces)
         THEN LET rest == {k \in (i + 1)..(Len(lines) - 1) : lines[k + 1].braces # <<>>}
                  next == IF rest = {} THEN Len(lines)
                          ELSE CHOOSE k \in rest : \A m \in rest : k <= m
              IN  ScanBraces(lines, next, 1, braceCount, foundOpenBrace)
    ELSE IF lines[i + 1].braces[j] = "{"
         THEN ScanBraces(lines, i, j + 1, braceCount + 1, TRUE)
    ELSE IF foundOpenBrace /\ braceCount - 1 = 0 THEN i + 1
    ELSE ScanBraces(lines, i, j + 1, braceCount - 1, foundOpenBrace)

\* findFunctionEnd returning the index i instead of i + 1.
findFunctionEndZeroIndexed(lines, startLine) ==
    LET end == ScanBraces(lines, startLine, 1, 0, FALSE)
    IN  IF end # 0 THEN end - 1 ELSE Min(startLine + FallbackWindow, Len(lines))
\* findFunctionEnd defaulting to the index it started from.
findFunctionEndFallbackIndex(lines, startLine) ==
    LET end == ScanBraces(lines, startLine, 1, 0, FALSE)
    IN  IF end # 0 THEN end ELSE startLine
findFunctionEnd(lines, startLine) ==
    LET end == ScanBraces(lines, startLine, 1, 0, FALSE)
    IN  IF end # 0 THEN end ELSE Min(startLine + FallbackWindow, Len(lines))

\* The look-back loop of parseSourceFile for the definition at line i
\* (1-indexed): the SSL name of the comment found, <<>> when there is none.
RECURSIVE LookBack(_, _, _)
LookBack(lines, i, lookBack) ==
    IF lookBack > LookBackLimit \/ i - lookBack < 1 THEN <<>>
    ELSE LET prevLine == lines[i - lookBack]
             commentMatch == SSL_COMMENT_PATTERN(prevLine)
         IN  IF commentMatch # <<>> THEN commentMatch
             ELSE IF prevLine.kind \notin {"comment", "blank"} THEN <<>>
             ELSE LookBack(lines, i, lookBack + 1)

\* lines.forEach of parseSourceFile from line i on. A line that matches no
\* pattern changes nothing: the loop is taken straight to the next line
\* that matches one.
RECURSIVE ParseLines(_, _, _, _)
ParseLines(file, i, functions, sslNamesFromComments) ==
    IF i > Len(file.lines) THEN
        [functions |-> functions, sslNamesFromComments |-> sslNamesFromComments]
    ELSE
        LET line == file.lines[i]
            info(kind) == [file |-> file.path, startLine |-> i,
                           endLine |-> findFunctionEnd(file.lines, i - 1),
                           kind |-> kind]
            comment == LookBack(file.lines, i, 1)
            f1 == IF OPCODE_PATTERNS(line)
                  THEN Put(functions, line.name, info("opcode")) ELSE functions
            s1 == IF OPCODE_PATTERNS(line) /\ comment # <<>>
                  THEN Put(sslNamesFromComments, line.name, comment)
                  ELSE sslNamesFromComments
            f2 == IF SCRIPT_FUNCTION_PATTERNS(line) /\ ~Has(f1, line.name)
                  THEN Put(f1, line.name, info("function")) ELSE f1
            rest == {k \in (i + 1)..Len(file.lines) :
                        \/ OPCODE_PATTERNS(file.lines[k])
                        \/ SCRIPT_FUNCTION_PATTERNS(file.lines[k])}
            next == IF rest = {} THEN Len(file.lines) + 1
                    ELSE CHOOSE k \in rest : \A m \in rest : k <= m
        IN  ParseLines(file, next, f2, s1)
parseSourceFile(file) == ParseLines(file, 1, <<>>, <<>>)

\* _?op[A-Z_][a-zA-Z0-9_]*
IsRegisteredName(n) ==
    LET m == IF n # <<>> /\ n[1] = "_" THEN Tail(n) ELSE n
    IN  /\ Len(m) >= 3 /\ startsWith(m, <<"o","p">>)
        /\ (IsUpper(m[3]) \/ m[3] = "_")
        /\ AllChars(IsWord, slice(m, 3))
\* Group 3 of OPCODE_REGISTER_PATTERN: after the closing parenthesis the lazy
\* .*? matches nothing, so the optional group takes part only when the
\* comment starts right there.
RegistrationComment(line) ==
    IF /\ line.sep = <<>>
       /\ startsWith(line.text, <<"o","p","_">>)
       /\ Len(line.text) > 3 /\ IsWord(line.text[4])
    THEN <<"o","p","_">> \o TakeWhile(IsWord, slice(line.text, 3))
    ELSE <<>>
\* the while loop of parseOpcodeRegistrations from line i on; the pattern
\* is searched from one call site to the next
RECURSIVE ParseRegistrations(_, _, _, _)
ParseRegistrations(lines, i, mappings, sslNames) ==
    IF i > Len(lines) THEN [mappings |-> mappings, sslNames |-> sslNames]
    ELSE
        LET line == lines[i]
            match == line.kind = "reg" /\ IsRegisteredName(line.name)
            sslNameFromComment == RegistrationComment(line)
            rest == {k \in (i + 1)..Len(lines) : lines[k].kind = "reg"}
            next == IF rest = {} THEN Len(lines) + 1
                    ELSE CHOOSE k \in rest : \A m \in rest : k <= m
        IN  ParseRegistrations(lines, next,
                IF match THEN Put(mappings, line.key, line.name) ELSE mappings,
                IF match /\ sslNameFromComment # <<>>
                THEN Put(sslNames, line.name, slice(sslNameFromComment, 3))
                ELSE sslNames)
parseOpcodeRegistrations(file) == ParseRegistrations(file.lines, 1, <<>>, <<>>)

\* The paths of the model for which file.endsWith('interpreter_extra.cc').
EndsWithInterpreterExtra(path) == path \in {"src/interpreter_extra.cc"}
\* line.includes('void opMetarule(Program* program)')
IsMetaruleStart(line) ==
    line.kind = "fndef" /\ line.ret = "void" /\ line.name = N_opMetarule
        /\ line.params = "Program*"
BraceDelta(line) ==
    Cardinality({j \in DOMAIN line.braces : line.braces[j] = "{"})
        - Cardinality({j \in DOMAIN line.braces : line.braces[j] = "}"})
\* The inner loop of parseMetaruleCases for the case at line lineNum, looking
\* at line j (both 1-indexed).
RECURSIVE CaseEnd(_, _, _)
CaseEnd(lines, lineNum, j) ==
    IF j > Len(lines) THEN lineNum
    ELSE IF lines[j].kind \in {"case", "default", "break"} THEN j
    ELSE IF lines[j].kind = "close" THEN j - 1
    ELSE LET rest == {k \in (j + 1)..Len(lines) :
                         lines[k].kind \in {"case", "default", "break", "close"}}
             next == IF rest = {} THEN Len(lines) + 1
                     ELSE CHOOSE k \in rest : \A m \in rest : k <= m
         IN  CaseEnd(lines, lineNum, next)
\* The outer loop of parseMetaruleCases from line i (1-indexed) on. A line
\* that neither starts opMetarule nor holds a brace or a case label leaves
\* inMetarule and braceCount as they are: the loop is taken straight to the
\* next line that does.
RECURSIVE ParseCases(_, _, _, _, _)
ParseCases(file, i, inMetarule, braceCount, metaruleFunctions) ==
    IF i > Len(file.lines) THEN metaruleFunctions
    ELSE
        LET line == file.lines[i]
            in1 == inMetarule \/ IsMetaruleStart(line)
            bc1 == IF IsMetaruleStart(line) THEN 0 ELSE braceCount
            bc2 == bc1 + BraceDelta(line)
            found == line.kind = "case" /\ Has(METARULE_SSL_NAMES, line.key)
            entry == [file |-> file.path, startLine |-> i,
                      endLine |-> CaseEnd(file.lines, i, i + 1),
                      kind |-> "metarule", cppName |-> N_opMetarule,
                      metarule |-> line.key]
            rest == {k \in (i + 1)..Len(file.lines) :
                        \/ IsMetaruleStart(file.lines[k])
                        \/ file.lines[k].braces # <<>>
                        \/ file.lines[k].kind = "case"}
            next == IF rest = {} THEN Len(file.lines) + 1
                    ELSE CHOOSE k \in rest : \A m \in rest : k <= m
        IN  IF ~in1 THEN ParseCases(file, next, FALSE, bc1, metaruleFunctions)
            ELSE ParseCases(file, next,
                     ~(bc2 = 0 /\ "}" \in Range(line.braces)), bc2,
                     IF found
                     THEN Put(metaruleFunctions, Get(METARULE_SSL_NAMES, line.key), entry)
                     ELSE metaruleFunctions)
parseMetaruleCases(file) == ParseCases(file, 1, FALSE, 0, <<>>)

\* name.replace(/([a-z])([A-Z])/g, '$1_$2'): a match ends on an upper-case
\* letter, which starts no further match, so the matches are exactly the
\* adjacent lower-upper pairs.
RECURSIVE CamelToSnake(_)
CamelToSnake(s) ==
    IF Len(s) < 2 THEN s
    ELSE IF IsLower(s[1]) /\ IsUpper(s[2])
         THEN <<s[1], "_">> \o CamelToSnake(Tail(s))
    ELSE <<s[1]>> \o CamelToSnake(Tail(s))
\* opcodeToSSLName without the underscore between a lower-case and an
\* upper-case letter.
opcodeToSSLNameNoSeparator(opcodeName) ==
    IF startsWith(opcodeName, <<"_","o","p","_">>) THEN slice(opcodeName, 4)
    ELSE IF startsWith(opcodeName, <<"o","p","_">>) THEN slice(opcodeName, 3)
    ELSE IF startsWith(opcodeName, <<"m","f","_">>) THEN slice(opcodeName, 3)
    ELSE toLowerCase(IF startsWith(opcodeName, <<"o","p">>) THEN slice(opcodeName, 2)
                     ELSE opcodeName)
opcodeToSSLName(opcodeName) ==
    IF startsWith(opcodeName, <<"_","o","p","_">>) THEN slice(opcodeName, 4)
    ELSE IF startsWith(opcodeName, <<"o","p","_">>) THEN slice(opcodeName, 3)
    ELSE IF startsWith(opcodeName, <<"m","f","_">>) THEN slice(opcodeName, 3)
    ELSE toLowerCase(CamelToSnake(
             IF startsWith(opcodeName, <<"o","p">>) THEN slice(opcodeName, 2)
             ELSE opcodeName))

\* { ...info, field: val }
With(info, field, val) == (field :> val) @@ info
\* funcName.startsWith('op') || startsWith('_op') || startsWith('mf_')
IsHandlerName(funcName) ==
    \/ startsWith(funcName, <<"o","p">>)
    \/ startsWith(funcName, <<"_","o","p">>)
    \/ startsWith(funcName, <<"m","f","_">>)
\* The canonical SSL name with the comment-derived name first.
ResolveAliasCommentFirst(funcName, sslNames) ==
    IF Has(sslNames, funcName) THEN Get(sslNames, funcName)
    ELSE IF Has(SSL_COMMENT_OVERRIDES, funcName) THEN Get(SSL_COMMENT_OVERRIDES, funcName)
    ELSE opcodeToSSLName(funcName)
\* SSL_COMMENT_OVERRIDES[funcName] || allSslNames[funcName] || opcodeToSSLName(funcName)
ResolveAlias(funcName, sslNames) ==
    IF Has(SSL_COMMENT_OVERRIDES, funcName) THEN Get(SSL_COMMENT_OVERRIDES, funcName)
    ELSE IF Has(sslNames, funcName) THEN Get(sslNames, funcName)
    ELSE opcodeToSSLName(funcName)
\* The guard of the alias entry without the comparison to the native name.
AliasGuardNoSelfTest(funcName, sslName) == sslName # <<>>
\* sslName && sslName !== funcName.toLowerCase()
AliasGuard(funcName, sslName) == sslName # <<>> /\ sslName # toLowerCase(funcName)
\* The first loop of the assembly storing the handler under the resolved
\* name and under the name derived from the native name as well.
RECURSIVE AddFunctionsTwoAliases(_, _, _, _, _)
AddFunctionsTwoAliases(functions, i, fns, sslNames, shortCommit) ==
    IF i > Len(fns) THEN functions
    ELSE
        LET funcName == fns[i].k
            info == With(fns[i].v, "commit", shortCommit)
            f1 == Put(functions, funcName, info)
            sslName == ResolveAlias(funcName, sslNames)
            derived == opcodeToSSLName(funcName)
            f2 == IF IsHandlerName(funcName) /\ AliasGuard(funcName, sslName)
                  THEN Put(f1, sslName, With(info, "cppName", funcName))
                  ELSE f1
            f3 == IF IsHandlerName(funcName) /\ AliasGuard(funcName, derived)
                  THEN Put(f2, derived, With(info, "cppName", funcName))
                  ELSE f2
        IN  AddFunctionsTwoAliases(f3, i + 1, fns, sslNames, shortCommit)
\* The first loop of the assembly falling back to the name derived from the
\* native name when the resolved name is the lower-cased native name.
RECURSIVE AddFunctionsFallback(_, _, _, _, _)
AddFunctionsFallback(functions, i, fns, sslNames, shortCommit) ==
    IF i > Len(fns) THEN functions
    ELSE
        LET funcName == fns[i].k
            info == With(fns[i].v, "commit", shortCommit)
            f1 == Put(functions, funcName, info)
            resolved == ResolveAlias(funcName, sslNames)
            sslName == IF resolved = toLowerCase(funcName)
                       THEN opcodeToSSLName(funcName) ELSE resolved
            f2 == IF IsHandlerName(funcName) /\ AliasGuard(funcName, sslName)
                  THEN Put(f1, sslName, With(info, "cppName", funcName))
                  ELSE f1
        IN  AddFunctionsFallback(f2, i + 1, fns, sslNames, shortCommit)
\* The first loop of the assembly, from entry i of allFunctions on.
RECURSIVE AddFunctions(_, _, _, _, _)
AddFunctions(functions, i, fns, sslNames, shortCommit) ==
    IF i > Len(fns) THEN functions
    ELSE
        LET funcName == fns[i].k
            info == With(fns[i].v, "commit", shortCommit)
            f1 == Put(functions, funcName, info)
            sslName == ResolveAlias(funcName, sslNames)
            f2 == IF IsHandlerName(funcName) /\ AliasGuard(funcName, sslName)
                  THEN Put(f1, sslName, With(info, "cppName", funcName))
                  ELSE f1
        IN  AddFunctions(f2, i + 1, fns, sslNames, shortCommit)
\* The second loop of the assembly, from entry i of allMetaruleFunctions on.
RECURSIVE AddMetarules(_, _, _, _)
AddMetarules(functions, i, metaruleFunctions, shortCommit) ==
    IF i > Len(metaruleFunctions) THEN functions
    ELSE AddMetarules(
             Put(functions, metaruleFunctions[i].k,
                 With(metaruleFunctions[i].v, "commit", shortCommit)),
             i + 1, metaruleFunctions, shortCommit)
\* The index main() builds; the key _meta is written meta.
BuildFunctionIndex(fns, sslNames, metaruleFunctions, rev, time) ==
    [meta |-> [repo |-> "fallout2-ce/fallout2-ce", commit |-> rev.commit,
               shortCommit |-> rev.shortCommit, generatedAt |-> time,
               functionCount |-> Len(fns)],
     functions |-> AddMetarules(
                       AddFunctions(<<>>, 1, fns, sslNames, rev.shortCommit),
                       1, metaruleFunctions, rev.shortCommit)]

(***************************************************************************)
(* generate-define-index.js                                                *)
(***************************************************************************)
\* const KNOWN_PREFIXES
KNOWN_PREFIXES == <<
    <<"P","E","R","K","_">>,
    <<"T","R","A","I","T","_">>,
    <<"S","T","A","T","_">>,
    <<"S","K","I","L","L","_">>,
    <<"D","A","M","_">>,
    <<"D","M","G","_">>,
    <<"M","E","T","A","R","U","L","E","_">>,
    <<"i","t","e","m","_","t","y","p","e","_">>,
    <<"I","N","V","E","N","_">>,
    <<"C","R","I","T","T","E","R","_">>,
    <<"O","N","E","_","G","A","M","E","_">>,
    <<"F","L","O","A","T","_","M","S","G","_">>,
    <<"O","B","J","_","T","Y","P","E","_">>,
    <<"P","I","D","_">>,
    <<"P","R","O","T","O","_">>,
    <<"A","N","I","M","_">>,
    <<"S","C","R","I","P","T","_">>,
    <<"T","I","L","E","_">>,
    <<"T","E","A","M","_">>,
    <<"R","E","P","U","T","A","T","I","O","N","_">>,
    <<"G","V","A","R","_">>,
    <<"L","V","A","R","_">>,
    <<"M","V","A","R","_">>,
    <<"M","S","G","_">>,
    <<"A","I","_">>,
    <<"F","I","D","_">>,
    <<"G","A","M","E","_">>,
    <<"T","O","W","N","_">>,
    <<"M","A","P","_">>,
    <<"A","R","E","A","_">>
>>
N_PERK_bonus == <<"P","E","R","K","_","b","o","n","u","s">>
N_MAX_HP == <<"M","A","X","_","H","P">>
N__PRIVATE == <<"_","P","R","I","V","A","T","E">>
N_GVAR_x == <<"G","V","A","R","_","x">>
N_y == <<"y">>
N_Y == <<"Y">>
N_yes == <<"y","e","s">>
N_YES == <<"Y","E","S">>
N_n == <<"n">>
N_yes_sp == <<"y","e","s"," ">>
N_OTHER == <<"O","T","H","E","R">>

\* A line of define.h.  kind "define" is #define <name> <value> [// ...],
\* with value "" when no text stands between the name and the comment;
\* any other line has kind "other".
DefineLine(name, value, hasComment) ==
    [kind |-> "define", name |-> name, value |-> value, hasComment |-> hasComment]
OtherLine == [kind |-> "other", name |-> <<>>, value |-> "", hasComment |-> FALSE]

\* prefix.replace(/_$/, '')
StripUnderscore(p) ==
    IF p # <<>> /\ p[Len(p)] = "_" THEN SubSeq(p, 1, Len(p) - 1) ELSE p
RECURSIVE PrefixFrom(_, _)
PrefixFrom(name, i) ==
    IF i > Len(KNOWN_PREFIXES) THEN N_OTHER
    ELSE IF startsWith(name, KNOWN_PREFIXES[i]) THEN StripUnderscore(KNOWN_PREFIXES[i])
    ELSE PrefixFrom(name, i + 1)
getPrefix(name) == PrefixFrom(name, 1)

\* DEFINE_PATTERN needs one character at least after the name: the value,
\* or else the comment, which the code then cuts off again.
DEFINE_PATTERN(line) ==
    line.kind = "define" /\ (line.value # "" \/ line.hasComment)
RECURSIVE ParseDefineLines(_, _, _)
ParseDefineLines(lines, i, defines) ==
    IF i > Len(lines) THEN defines
    ELSE
        LET line == lines[i]
            keep == DEFINE_PATTERN(line) /\ ~startsWith(line.name, <<"_">>)
        IN  ParseDefineLines(lines, i + 1,
                IF keep
                THEN Put(defines, line.name,
                         [line |-> i, value |-> line.value, prefix |-> getPrefix(line.name)])
                ELSE defines)
parseDefines(content) == ParseDefineLines(content, 1, <<>>)

REPO == "BGforgeNet/Fallout2_Restoration_Project"
FILE_PATH == "scripts_src/headers/define.h"
BuildDefineIndex(defines, rev, time) ==
    [meta |-> [repo |-> REPO, file |-> FILE_PATH, commit |-> rev.commit,
               shortCommit |-> rev.shortCommit, generatedAt |-> time,
               defineCount |-> Len(defines)],
     defines |-> defines]

(***************************************************************************)
(* The diff and the duplicate check                                        *)
(***************************************************************************)
\* The revision of an index together with the time it was generated.
ShortCommitOfWithTime(idx) ==
    IF "shortCommit" \in DOMAIN idx.meta
    THEN <<idx.meta.shortCommit, idx.meta.generatedAt>> ELSE <<"undefined", 0>>
\* index._meta?.shortCommit, "undefined" when the key is missing
ShortCommitOf(idx) ==
    IF "shortCommit" \in DOMAIN idx.meta THEN idx.meta.shortCommit ELSE "undefined"
NamesOf(m) == [i \in DOMAIN m |-> m[i].k]

\* The comparison of two entries of the function index.
FunctionInfoDiffers(oldInfo, newInfo) ==
    \/ oldInfo.file # newInfo.file
    \/ oldInfo.startLine # newInfo.startLine
    \/ oldInfo.endLine # newInfo.endLine
\* The comparison of two entries of the define index.
DefineInfoDiffers(oldInfo, newInfo) ==
    \/ oldInfo.line # newInfo.line
    \/ oldInfo.value # newInfo.value
N_constructor == <<"c","o","n","s","t","r","u","c","t","o","r">>
N_toString == <<"t","o","S","t","r","i","n","g">>
N_valueOf == <<"v","a","l","u","e","O","f">>
\* Property names a plain object inherits from Object.prototype: obj[name]
\* reads a function for them when obj has no own property of that name.
ObjectPrototypeKeys == {N_constructor, N_toString, N_valueOf}
\* What obj[name] reads for an inherited name: a function, which has none of
\* the fields of an entry.
Inherited == [kind |-> "inherited"]
\* The body both scripts share, over the maps and the entry comparison.
\* oldMap[name] and newMap[name] are tested for truthiness: an own entry or
\* an inherited property passes; the fields of an inherited property are
\* undefined and differ from those of every entry.
Compare(oldMap, newMap, oldIndex, newIndex, Differs(_, _)) ==
    LET inherits(m, k) == ~Has(m, k) /\ k \in ObjectPrototypeKeys
        isAdded(e) == ~Has(oldMap, e.k) /\ ~inherits(oldMap, e.k)
        isModified(e) ==
            IF Has(oldMap, e.k) THEN Differs(Get(oldMap, e.k), e.v)
            ELSE inherits(oldMap, e.k)
        isRemoved(e) == ~Has(newMap, e.k) /\ ~inherits(newMap, e.k)
        modifiedOf(e) ==
            [name |-> e.k,
             old |-> IF Has(oldMap, e.k) THEN Get(oldMap, e.k) ELSE Inherited,
             new |-> e.v]
        mods == SelectSeq(newMap, isModified)
    IN  [added |-> NamesOf(SelectSeq(newMap, isAdded)),
         removed |-> NamesOf(SelectSeq(oldMap, isRemoved)),
         modified |-> [i \in DOMAIN mods |-> modifiedOf(mods[i])],
         commitChanged |-> ShortCommitOf(oldIndex) # ShortCommitOf(newIndex)]
\* compareIndices of generate-function-index.js
compareIndices(oldIndex, newIndex) ==
    Compare(oldIndex.functions, newIndex.functions, oldIndex, newIndex,
            FunctionInfoDiffers)
\* compareIndices of generate-define-index.js
compareDefineIndices(oldIndex, newIndex) ==
    Compare(oldIndex.defines, newIndex.defines, oldIndex, newIndex,
            DefineInfoDiffers)
\* hasChanges that is true of every diff.
hasChangesAlways(c) == TRUE
\* added.length > 0 || removed.length > 0 || modified.length > 0 || commitChanged
hasChanges(c) ==
    c.added # <<>> \/ c.removed # <<>> \/ c.modified # <<>> \/ c.commitChanged

\* names.sort()
RECURSIVE InsertSorted(_, _)
InsertSorted(s, x) ==
    IF s = <<>> THEN <<x>>
    ELSE IF StrLess(x, Head(s)) THEN <<x>> \o s
    ELSE <<Head(s)>> \o InsertSorted(Tail(s), x)
RECURSIVE Sort(_)
Sort(s) == IF s = <<>> THEN <<>> ELSE InsertSorted(Sort(Tail(s)), Head(s))

\* !info[field] is false: the property is there and is not the empty string
Truthy(info, field) == field \in DOMAIN info /\ info[field] # <<>>
\* `${info.file}:${info.startLine}:${info.endLine}`: the two numbers hold no
\* colon, so the key determines the triple.
LocationKey(info) == <<info.file, info.startLine, info.endLine>>
\* The first loop of detectDuplicates, from entry i on.
RECURSIVE GroupByLocation(_, _, _)
GroupByLocation(functions, i, locationToNames) ==
    IF i > Len(functions) THEN locationToNames
    ELSE
        LET info == functions[i].v
            key == LocationKey(info)
            names == IF Has(locationToNames, key) THEN Get(locationToNames, key) ELSE <<>>
        IN  GroupByLocation(functions, i + 1,
                IF ~Truthy(info, "cppName") THEN locationToNames
                ELSE Put(locationToNames, key, Append(names, functions[i].k)))
\* detectDuplicates that also groups the entries without cppName.
detectDuplicatesAllEntries(idx) ==
    LET stripped == [i \in DOMAIN idx.functions |->
                        [k |-> idx.functions[i].k,
                         v |-> With(idx.functions[i].v, "cppName", <<"x">>)]]
        groups == GroupByLocation(stripped, 1, <<>>)
        isDup(g) == Len(g.v) > 1
        dups == SelectSeq(groups, isDup)
    IN  [i \in DOMAIN dups |->
            [k |-> dups[i].k,
             v |-> [names |-> Sort(dups[i].v),
                    info |-> Get(idx.functions, Sort(dups[i].v)[1])]]]
detectDuplicates(idx) ==
    LET groups == GroupByLocation(idx.functions, 1, <<>>)
        isDup(g) == Len(g.v) > 1
        dups == SelectSeq(groups, isDup)
    IN  [i \in DOMAIN dups |->
            [k |-> dups[i].k,
             v |-> [names |-> Sort(dups[i].v),
                    info |-> Get(idx.functions, Sort(dups[i].v)[1])]]]
printDuplicates(duplicates) == duplicates # <<>>

\* askConfirmation without toLowerCase.
askConfirmationExact(line) == line = N_y \/ line = N_yes
\* answer.toLowerCase() === 'y' || answer.toLowerCase() === 'yes'
askConfirmation(line) == toLowerCase(line) = N_y \/ toLowerCase(line) = N_yes


(***************************************************************************)
(* The inputs of the model                                                 *)
(***************************************************************************)
MaxFiles == 2
MaxRuns == 2

N_get_self == <<"g","e","t","_","s","e","l","f">>

\* src/interpreter_extra.cc: two handlers with comments, the dispatch
\* routine, and a registration call in the usual form.
FileA ==
    [path |-> "src/interpreter_extra.cc",
     lines |-> <<
        Comment(N_self_obj),
        Comment(N_0x455600),
        FnDef("void", N_opGetSelf, "Program*", <<>>),
        Code(<<"{">>),
        Close,
        Comment(N_success),
        FnDef("void", N_opSuccess, "Program*", <<"{">>),
        Close,
        FnDef("void", N_opMetarule, "Program*", <<>>),
        Code(<<"{">>),
        Code(<<"{">>),
        Case("METARULE_PARTY_COUNT", <<>>),
        Code(<<>>),
        Break,
        Case("METARULE_FIRST_RUN", <<>>),
        Code(<<>>),
        Close,
        Close,
        Reg("OPCODE_GET_SELF", N_opGetSelf, <<";", " ">>, N_op_self_obj) >>]
\* src/sfall_opcodes.cc: a handler whose comment repeats its native name, a
\* registration whose comment follows the parenthesis, a script function,
\* a handler whose comment is its native name in lower case.
FileB ==
    [path |-> "src/sfall_opcodes.cc",
     lines |-> <<
        Comment(N_op_sqrt),
        FnDef("void", N_op_sqrt, "Program*", <<"{", "}">>),
        Reg("OPCODE_GET_SELF", N_opGetSelf, <<>>, N_op_dude_obj),
        Blank,
        FnDef("int", N_scriptMain, "other", <<"{">>),
        Code(<<"{", "}">>),
        Close,
        Comment(N_opfoo),
        FnDef("void", N_opFoo, "Program*", <<"{", "}">>) >>]
\* src/interpreter_lib.cc: two handlers that resolve to one SSL name, a
\* second comment for opGetSelf, a body that is never closed.
FileC ==
    [path |-> "src/interpreter_lib.cc",
     lines |-> <<
        Comment(N_bar),
        FnDef("void", N_opFoo, "Program*", <<"{">>),
        Close,
        Comment(N_dude_obj),
        Blank,
        FnDef("void", N_opGetSelf, "Program*", <<"{", "}">>),
        FnDef("void", N_opBar, "Program*", <<"{">>),
        Code(<<"{">>),
        Close >>]
Pool == {FileA, FileB, FileC}

InjectiveSeqs(S, n) ==
    {s \in [1..n -> S] : \A i, j \in 1..n : i # j => s[i] # s[j]}
\* The scans findSourceFiles can deliver: the files of a snapshot in the
\* order readdirSync lists them.
Snapshots ==
    UNION {InjectiveSeqs(Pool, n) : n \in 1..Min(MaxFiles, Cardinality(Pool))}

\* getCommitHash and getShortCommitHash; "main" when git fails.
Revs == {[commit |-> "c1c1c1c1", shortCommit |-> "c1c1"],
         [commit |-> "main", shortCommit |-> "main"]}
NoRev == [commit |-> "", shortCommit |-> ""]
NoCheckout == [files |-> <<>>, rev |-> NoRev]

\* Contents of define.h.
DefineH1 ==
    [path |-> FILE_PATH,
     lines |-> << OtherLine,
                  DefineLine(N_PERK_bonus, "10", FALSE),
                  DefineLine(N__PRIVATE, "1", FALSE),
                  DefineLine(N_MAX_HP, "", FALSE) >>]
DefineH2 ==
    [path |-> FILE_PATH,
     lines |-> << DefineLine(N_PERK_bonus, "10", TRUE),
                  DefineLine(N_GVAR_x, "", TRUE) >>]
DefineH3 ==
    [path |-> FILE_PATH,
     lines |-> << OtherLine, OtherLine,
                  DefineLine(N_PERK_bonus, "12", FALSE) >>]
DefineH4 ==
    [path |-> FILE_PATH,
     lines |-> << DefineLine(N_constructor, "1", FALSE) >>]
DefineContents == {DefineH1, DefineH2, DefineH3, DefineH4}

\* Lines typed at the confirmation prompt.
Answers == {<<>>, N_y, N_Y, N_yes, N_YES, N_n, N_yes_sp}

\* process.argv.slice(2): every flag alone, the flags combined, --repo-path
\* with and without a value, an unknown flag and a stray word.
ArgLists ==
    {<<>>, <<"--yes">>, <<"-y">>, <<"--dry-run">>, <<"--dry-run", "--yes">>,
     <<"--validate">>, <<"--repo-path", "dir">>, <<"--repo-path">>,
     <<"--repo-path", "--yes">>, <<"--bogus">>, <<"--yes", "--validate">>}

\* JSON.stringify and JSON.parse: the values written hold strings, integers,
\* objects and no undefined property, so the text read back parses to the
\* value written, key order included.
JSONstringify(value) == [kind |-> "json", data |-> value]
Absent == [kind |-> "absent", data |-> <<>>]
Corrupt == [kind |-> "corrupt", data |-> <<>>]
\* let existingIndex = { _meta: {}, functions: {} }
EmptyFunctionIndex == [meta |-> <<>>, functions |-> <<>>]
EmptyDefineIndex == [meta |-> <<>>, defines |-> <<>>]
EmptyIndex(g) == IF g = "function" THEN EmptyFunctionIndex ELSE EmptyDefineIndex

\* An index file left by hand or by an earlier generator, in which two SSL
\* names lead to the body of opGetSelf.
LegacyInfo ==
    [file |-> "src/interpreter_extra.cc", startLine |-> 3, endLine |-> 5,
     kind |-> "opcode", commit |-> "c0c0"]
LegacyIndex ==
    [meta |-> [repo |-> "fallout2-ce/fallout2-ce", commit |-> "c0c0c0c0",
               shortCommit |-> "c0c0", generatedAt |-> 0, functionCount |-> 1],
     functions |-> <<
        [k |-> N_opGetSelf, v |-> LegacyInfo],
        [k |-> N_self_obj, v |-> With(LegacyInfo, "cppName", N_opGetSelf)],
        [k |-> N_get_self, v |-> With(LegacyInfo, "cppName", N_opGetSelf)] >>]
InitialArtifacts(g) ==
    IF g = "function" THEN {Absent, Corrupt, JSONstringify(LegacyIndex)}
    ELSE {Absent, Corrupt}

(***************************************************************************)
(* main() of the two scripts                                               *)
(***************************************************************************)
\* The argument loop of generate-function-index.js from token i on;
\* skipped records that a token fell through every branch.
RECURSIVE ParseFunctionArgs(_, _, _)
ParseFunctionArgs(args, i, st) ==
    IF i > Len(args) THEN st
    ELSE IF args[i] = "--repo-path" /\ i + 1 <= Len(args)
         THEN ParseFunctionArgs(args, i + 2, [st EXCEPT !.repoPath = args[i + 1]])
    ELSE IF args[i] \in {"--yes", "-y"}
         THEN ParseFunctionArgs(args, i + 1, [st EXCEPT !.autoConfirm = TRUE])
    ELSE IF args[i] = "--dry-run"
         THEN ParseFunctionArgs(args, i + 1, [st EXCEPT !.dryRun = TRUE])
    ELSE IF args[i] = "--validate"
         THEN ParseFunctionArgs(args, i + 1, [st EXCEPT !.validateOnly = TRUE])
    ELSE ParseFunctionArgs(args, i + 1, [st EXCEPT !.skipped = TRUE])
\* The argument loop of generate-define-index.js.
RECURSIVE ParseDefineArgs(_, _, _)
ParseDefineArgs(args, i, st) ==
    IF i > Len(args) THEN st
    ELSE IF args[i] \in {"--yes", "-y"}
         THEN ParseDefineArgs(args, i + 1, [st EXCEPT !.autoConfirm = TRUE])
    ELSE IF args[i] = "--dry-run"
         THEN ParseDefineArgs(args, i + 1, [st EXCEPT !.dryRun = TRUE])
    ELSE ParseDefineArgs(args, i + 1, [st EXCEPT !.skipped = TRUE])
NoFlags ==
    [repoPath |-> "", autoConfirm |-> FALSE, dryRun |-> FALSE,
     validateOnly |-> FALSE, skipped |-> FALSE]
ParseArgs(g, args) ==
    IF g = "function" THEN ParseFunctionArgs(args, 1, NoFlags)
    ELSE ParseDefineArgs(args, 1, NoFlags)

NoChanges == [added |-> <<>>, removed |-> <<>>, modified |-> <<>>, commitChanged |-> FALSE]

Init ==
    /\ gen \in {"function", "define"}
    /\ pc = "idle"
    /\ autoConfirm = FALSE /\ dryRun = FALSE /\ validateOnly = FALSE
    /\ malformed = FALSE
    /\ checkout = NoCheckout
    /\ fileIdx = 0
    /\ allFunctions = <<>> /\ allSslNames = <<>> /\ opcodeMappings = <<>>
    /\ allMetaruleFunctions = <<>>
    /\ index = EmptyIndex(gen)
    /\ changes = NoChanges
    /\ artifact \in InitialArtifacts(gen)
    /\ exitCode = -1
    /\ now = 0
    /\ artifactAtStart = artifact
    /\ prompted = FALSE
    /\ answer = <<>>
    /\ writes = 0
    /\ persistedFrom = NoCheckout
    /\ fnArg = <<>> /\ fnRet = <<>>

scanVars == <<fileIdx, allFunctions, allSslNames, opcodeMappings, allMetaruleFunctions>>
flagVars == <<autoConfirm, dryRun, validateOnly, malformed>>
histVars == <<artifactAtStart, prompted, answer, writes, persistedFrom>>
pureVars == <<fnArg, fnRet>>

\* The process ends with the given status.
Exit(code) == pc' = "done" /\ exitCode' = code

\* A run starts: the argument loop of main().
Start(args) ==
    /\ pc \in {"idle", "done"}
    /\ now < MaxRuns
    /\ LET st == ParseArgs(gen, args)
       IN  /\ autoConfirm' = st.autoConfirm
           /\ dryRun' = st.dryRun
           /\ validateOnly' = st.validateOnly
           /\ malformed' = st.skipped
           /\ pc' = IF gen = "define" THEN "getCommit"
                    ELSE IF st.validateOnly THEN "validate" ELSE "ensureRepo"
    /\ now' = now + 1
    /\ exitCode' = -1
    /\ checkout' = NoCheckout
    /\ fileIdx' = 0
    /\ allFunctions' = <<>> /\ allSslNames' = <<>> /\ opcodeMappings' = <<>>
    /\ allMetaruleFunctions' = <<>>
    /\ index' = EmptyIndex(gen)
    /\ changes' = NoChanges
    /\ artifactAtStart' = artifact
    /\ prompted' = FALSE /\ answer' = <<>> /\ writes' = 0
    /\ UNCHANGED <<gen, artifact, persistedFrom, pureVars>>

\* validateExistingIndex that reports duplicates without failing.
validateExistingIndexLenient ==
    /\ pc = "validate"
    /\ Exit(IF artifact.kind # "json" THEN 1 ELSE 0)
    /\ UNCHANGED <<gen, flagVars, checkout, scanVars, index, changes, artifact,
                   now, histVars, pureVars>>
\* validateExistingIndex() and the return of main()
validateExistingIndex ==
    /\ pc = "validate"
    /\ Exit(IF artifact.kind # "json" THEN 1
            ELSE IF printDuplicates(detectDuplicates(artifact.data)) THEN 1
            ELSE 0)
    /\ UNCHANGED <<gen, flagVars, checkout, scanVars, index, changes, artifact,
                   now, histVars, pureVars>>

\* ensureRepo throws: no checkout and git clone fails; main().catch exits 1
ensureRepoFails ==
    /\ pc = "ensureRepo"
    /\ Exit(1)
    /\ UNCHANGED <<gen, flagVars, checkout, scanVars, index, changes, artifact,
                   now, histVars, pureVars>>

\* ensureRepo returns (fresh clone, updated or stale checkout), then
\* getCommitHash, getShortCommitHash and findSourceFiles
ensureRepo(files, rev) ==
    /\ pc = "ensureRepo"
    /\ checkout' = [files |-> files, rev |-> rev]
    /\ pc' = "scan"
    /\ UNCHANGED <<gen, flagVars, scanVars, index, changes, artifact, exitCode,
                   now, histVars, pureVars>>

\* Object.assign(allSslNames, sslNamesFromComments) and
\* Object.assign(allSslNames, sslNames)
MergeSslNames(all, found) == ObjectAssign(all, found)

\* One iteration of for (const file of sourceFiles)
ScanFile ==
    /\ pc = "scan"
    /\ fileIdx < Len(checkout.files)
    /\ LET file == checkout.files[fileIdx + 1]
           parsed == parseSourceFile(file)
           regs == parseOpcodeRegistrations(file)
       IN  /\ allFunctions' = ObjectAssign(allFunctions, parsed.functions)
           /\ allSslNames' = MergeSslNames(
                                 MergeSslNames(allSslNames, parsed.sslNamesFromComments),
                                 regs.sslNames)
           /\ opcodeMappings' = ObjectAssign(opcodeMappings, regs.mappings)
           /\ allMetaruleFunctions' =
                  IF EndsWithInterpreterExtra(file.path)
                  THEN ObjectAssign(allMetaruleFunctions, parseMetaruleCases(file))
                  ELSE allMetaruleFunctions
    /\ fileIdx' = fileIdx + 1
    /\ UNCHANGED <<gen, pc, flagVars, checkout, index, changes, artifact, exitCode,
                   now, histVars, pureVars>>

\* Build the final index with SSL names
Assemble ==
    /\ pc = "scan"
    /\ fileIdx = Len(checkout.files)
    /\ index' = BuildFunctionIndex(allFunctions, allSslNames, allMetaruleFunctions,
                                   checkout.rev, now)
    /\ pc' = "assembled"
    /\ UNCHANGED <<gen, flagVars, checkout, scanVars, changes, artifact, exitCode,
                   now, histVars, pureVars>>

\* if (hasDuplicates) process.exit(1)
AfterDuplicateCheck(hasDuplicates) == IF hasDuplicates THEN "fatal" ELSE "compare"
\* Check for duplicate SSL entries pointing to same C++ implementation
CheckDuplicates ==
    /\ pc = "assembled"
    /\ LET next == AfterDuplicateCheck(printDuplicates(detectDuplicates(index)))
       IN  IF next = "fatal" THEN Exit(1) ELSE pc' = next /\ UNCHANGED exitCode
    /\ UNCHANGED <<gen, flagVars, checkout, scanVars, index, changes, artifact,
                   now, histVars, pureVars>>

\* getLatestCommit; on failure the branch name stands in
getLatestCommit(rev) ==
    /\ pc = "getCommit"
    /\ checkout' = [files |-> <<>>, rev |-> rev]
    /\ pc' = "fetch"
    /\ UNCHANGED <<gen, flagVars, scanVars, index, changes, artifact, exitCode,
                   now, histVars, pureVars>>

\* fetchFromGitHub rejects and the run ends with status 0.
fetchFailsQuietly ==
    /\ pc = "fetch"
    /\ Exit(0)
    /\ UNCHANGED <<gen, flagVars, checkout, scanVars, index, changes, artifact,
                   now, histVars, pureVars>>
\* fetchFromGitHub rejects: process.exit(1)
fetchFails ==
    /\ pc = "fetch"
    /\ Exit(1)
    /\ UNCHANGED <<gen, flagVars, checkout, scanVars, index, changes, artifact,
                   now, histVars, pureVars>>

\* fetchFromGitHub resolves, then parseDefines and the index
fetchFromGitHub(content) ==
    /\ pc = "fetch"
    /\ checkout' = [checkout EXCEPT !.files = <<content>>]
    /\ index' = BuildDefineIndex(parseDefines(content.lines), checkout.rev, now)
    /\ pc' = "compare"
    /\ UNCHANGED <<gen, flagVars, scanVars, changes, artifact, exitCode,
                   now, histVars, pureVars>>

\* Load existing index if it exists
LoadExisting(g, file) == IF file.kind = "json" THEN file.data ELSE EmptyIndex(g)
\* Compare indices; return when nothing changed
CompareWithExisting ==
    /\ pc = "compare"
    /\ LET existingIndex == LoadExisting(gen, artifact)
           c == IF gen = "function" THEN compareIndices(existingIndex, index)
                ELSE compareDefineIndices(existingIndex, index)
       IN  /\ changes' = c
           /\ IF hasChanges(c) THEN pc' = "gate" /\ UNCHANGED exitCode ELSE Exit(0)
    /\ UNCHANGED <<gen, flagVars, checkout, scanVars, index, artifact,
                   now, histVars, pureVars>>

\* The step after the summary, without the dry-run return.
AfterSummaryNoDryRun(dry, auto) == IF auto THEN "write" ELSE "prompt"
\* if (dryRun) return; let shouldWrite = autoConfirm; if (!autoConfirm) ask
AfterSummary(dry, auto) ==
    IF dry THEN "done" ELSE IF auto THEN "write" ELSE "prompt"
Gate ==
    /\ pc = "gate"
    /\ LET next == AfterSummary(dryRun, autoConfirm)
       IN  /\ IF next = "done" THEN Exit(0) ELSE pc' = next /\ UNCHANGED exitCode
           /\ prompted' = (next = "prompt")
    /\ UNCHANGED <<gen, flagVars, checkout, scanVars, index, changes, artifact,
                   now, artifactAtStart, answer, writes, persistedFrom, pureVars>>

\* The callback of rl.question
Answer(line) ==
    /\ pc = "prompt"
    /\ answer' = line
    /\ IF askConfirmation(line) THEN pc' = "write" /\ UNCHANGED exitCode ELSE Exit(0)
    /\ UNCHANGED <<gen, flagVars, checkout, scanVars, index, changes, artifact,
                   now, artifactAtStart, prompted, writes, persistedFrom, pureVars>>

\* A write that adds the new entries to those of the artifact on disk.
WriteArtifactPatched ==
    /\ pc = "write"
    /\ artifact' =
           IF artifact.kind = "json" /\ gen = "function"
           THEN JSONstringify([index EXCEPT !.functions =
                                  ObjectAssign(artifact.data.functions, index.functions)])
           ELSE JSONstringify(index)
    /\ writes' = writes + 1
    /\ persistedFrom' = checkout
    /\ Exit(0)
    /\ UNCHANGED <<gen, flagVars, checkout, scanVars, index, changes,
                   now, artifactAtStart, prompted, answer, pureVars>>
\* fs.writeFileSync(OUTPUT_FILE, JSON.stringify(index, null, 2))
WriteArtifact ==
    /\ pc = "write"
    /\ artifact' = JSONstringify(index)
    /\ writes' = writes + 1
    /\ persistedFrom' = checkout
    /\ Exit(0)
    /\ UNCHANGED <<gen, flagVars, checkout, scanVars, index, changes,
                   now, artifactAtStart, prompted, answer, pureVars>>

Next ==
    \/ \E args \in ArgLists : Start(args)
    \/ validateExistingIndex
    \/ ensureRepoFails
    \/ \E files \in Snapshots, rev \in Revs : ensureRepo(files, rev)
    \/ ScanFile
    \/ Assemble
    \/ CheckDuplicates
    \/ \E rev \in Revs : getLatestCommit(rev)
    \/ fetchFails
    \/ \E content \in DefineContents : fetchFromGitHub(content)
    \/ CompareWithExisting
    \/ Gate
    \/ \E line \in Answers : Answer(line)
    \/ WriteArtifact

Spec == Init /\ [][Next]_vars

(***************************************************************************)
(* findFunctionEnd and detectDuplicates on their own                       *)
(***************************************************************************)
MaxLines == 3
MaxEntries == 3

\* The rest of the state while one function is applied.
NoRun ==
    /\ gen = "function"
    /\ autoConfirm = FALSE /\ dryRun = FALSE /\ validateOnly = FALSE
    /\ malformed = FALSE
    /\ checkout = NoCheckout
    /\ fileIdx = 0
    /\ allFunctions = <<>> /\ allSslNames = <<>> /\ opcodeMappings = <<>>
    /\ allMetaruleFunctions = <<>>
    /\ index = EmptyFunctionIndex
    /\ changes = NoChanges
    /\ artifact = Absent
    /\ exitCode = -1
    /\ now = 0
    /\ artifactAtStart = Absent
    /\ prompted = FALSE
    /\ answer = <<>>
    /\ writes = 0
    /\ persistedFrom = NoCheckout
runVars ==
    <<gen, flagVars, checkout, scanVars, index, changes, artifact, exitCode,
      now, histVars>>

\* The braces a source line can hold.
BraceLines ==
    {Code(b) : b \in {<<>>, <<"{">>, <<"}">>, <<"{", "}">>, <<"}", "{">>,
                      <<"{", "{">>, <<"}", "}">>}}
ExtentInputs ==
    {[lines |-> ls, startLine |-> s] :
        ls \in UNION {[1..n -> BraceLines] : n \in 1..MaxLines}, s \in 0..(MaxLines - 1)}

InitExtent ==
    /\ NoRun
    /\ pc = "call"
    /\ fnArg \in {a \in ExtentInputs : a.startLine < Len(a.lines)}
    /\ fnRet = <<>>
\* findFunctionEnd(lines, index) as parseSourceFile calls it
CallFindFunctionEnd ==
    /\ pc = "call"
    /\ fnRet' = <<findFunctionEnd(fnArg.lines, fnArg.startLine)>>
    /\ pc' = "return"
    /\ UNCHANGED <<runVars, fnArg>>
NextExtent == CallFindFunctionEnd
SpecExtent == InitExtent /\ [][NextExtent]_vars

\* Index entries to validate: SSL names in the order the file lists them.
DupNames == <<N_self_obj, N_dude_obj, N_get_self, N_success, N_foo>>
DupFiles == {"src/interpreter_extra.cc", "src/interpreter_lib.cc"}
DupInfos ==
    LET base == {[file |-> f, startLine |-> s, endLine |-> 5, kind |-> "opcode",
                  commit |-> "c1c1"] : f \in DupFiles, s \in 1..2}
    IN  base \cup {With(b, "cppName", N_opGetSelf) : b \in base}
DupInputs ==
    {[meta |-> <<>>, functions |-> [i \in 1..n |-> [k |-> DupNames[i], v |-> infos[i]]]] :
        infos \in [1..MaxEntries -> DupInfos], n \in 0..MaxEntries}

InitDup ==
    /\ NoRun
    /\ pc = "call"
    /\ fnArg \in DupInputs
    /\ fnRet = <<>>
\* detectDuplicates(index) as main and validateExistingIndex call it
CallDetectDuplicates ==
    /\ pc = "call"
    /\ fnRet' = <<detectDuplicates(fnArg)>>
    /\ pc' = "return"
    /\ UNCHANGED <<runVars, fnArg>>
NextDup == CallDetectDuplicates
SpecDup == InitDup /\ [][NextDup]_vars

(***************************************************************************)
(* The scan and the assembly of main() over every short source file         *)
(***************************************************************************)
MaxScanLines == 4

\* The lines a scanned file is made of.
ScanAlphabet ==
    {Comment(N_op_sqrt),
     FnDef("void", N_op_sqrt, "Program*", <<"{">>),
     FnDef("void", N_opGetSelf, "Program*", <<"{">>),
     FnDef("void", N_opMetarule, "Program*", <<"{">>),
     Case("METARULE_PARTY_COUNT", <<>>),
     Break,
     Close}
\* Lines without braces that make a file longer than the fallback window.
Padding == [i \in 1..FallbackWindow |-> Code(<<>>)]
ScanFiles ==
    LET heads == UNION {[1..n -> ScanAlphabet] : n \in 1..MaxScanLines}
    IN  {[path |-> "src/interpreter_extra.cc", lines |-> h \o t] :
            h \in heads, t \in {<<>>, Padding}}

\* The revision of the scanned checkout.
ScanRev == [commit |-> "c1c1c1c1", shortCommit |-> "c1c1"]
\* main() after ensureRepo and findSourceFiles found one file.
InitScan ==
    /\ gen = "function"
    /\ pc = "scan"
    /\ autoConfirm = FALSE /\ dryRun = FALSE /\ validateOnly = FALSE
    /\ malformed = FALSE
    /\ \E f \in ScanFiles : checkout = [files |-> <<f>>, rev |-> ScanRev]
    /\ fileIdx = 0
    /\ allFunctions = <<>> /\ allSslNames = <<>> /\ opcodeMappings = <<>>
    /\ allMetaruleFunctions = <<>>
    /\ index = EmptyFunctionIndex
    /\ changes = NoChanges
    /\ artifact = Absent
    /\ exitCode = -1
    /\ now = 1
    /\ artifactAtStart = Absent
    /\ prompted = FALSE
    /\ answer = <<>>
    /\ writes = 0
    /\ persistedFrom = NoCheckout
    /\ fnArg = <<>> /\ fnRet = <<>>
NextScan == ScanFile \/ Assemble
SpecScan == InitScan /\ [][NextScan]_vars

(***************************************************************************)
(* The scan and the assembly on handlers whose aliases collide              *)
(***************************************************************************)
MaxClashLines == 5

\* main() after ensureRepo and findSourceFiles found one file of up to
\* MaxClashLines lines: annotations naming a handler or a dispatch case,
\* handler definitions and a dispatch-case line.
InitClash ==
    /\ gen = "function"
    /\ pc = "scan"
    /\ autoConfirm = FALSE /\ dryRun = FALSE /\ validateOnly = FALSE
    /\ malformed = FALSE
    /\ LET alphabet == {Comment(N_op_sqrt),
                        Comment(Get(METARULE_SSL_NAMES, "METARULE_PARTY_COUNT")),
                        FnDef("void", N_op_sqrt, "Program*", <<"{">>),
                        FnDef("void", N_opGetSelf, "Program*", <<"{">>),
                        FnDef("void", N_opMetarule, "Program*", <<"{">>),
                        Case("METARULE_PARTY_COUNT", <<>>)}
       IN  \E lines \in UNION {[1..n -> alphabet] : n \in 1..MaxClashLines} :
               checkout = [files |-> <<[path |-> "src/interpreter_extra.cc",
                                        lines |-> lines]>>,
                           rev |-> ScanRev]
    /\ fileIdx = 0
    /\ allFunctions = <<>> /\ allSslNames = <<>> /\ opcodeMappings = <<>>
    /\ allMetaruleFunctions = <<>>
    /\ index = EmptyFunctionIndex
    /\ changes = NoChanges
    /\ artifact = Absent
    /\ exitCode = -1
    /\ now = 1
    /\ artifactAtStart = Absent
    /\ prompted = FALSE
    /\ answer = <<>>
    /\ writes = 0
    /\ persistedFrom = NoCheckout
    /\ fnArg = <<>> /\ fnRet = <<>>
SpecClash == InitClash /\ [][NextScan]_vars

(***************************************************************************)
(* opcodeToSSLName on its own                                               *)
(***************************************************************************)
MaxNameLen == 4
N_opObjCanSeeObj == <<"o","p","O","b","j","C","a","n","S","e","e","O","b","j">>
N_obj_can_see_obj == <<"o","b","j","_","c","a","n","_","s","e","e","_","o","b","j">>

\* The prefixes the patterns of OPCODE_PATTERNS start with.
NamePrefixes == {<<"_","o","p","_">>, <<"o","p","_">>, <<"m","f","_">>, <<"o","p">>}
\* Some pattern of OPCODE_PATTERNS captures the name.
IsOpcodeName(n) ==
    \/ IsCamelOpName(n)
    \/ \E p \in NamePrefixes \ {<<"o","p">>} : IsSnakeName(n, p)
\* Every accepted name made of a prefix and up to MaxNameLen further
\* characters, and the two names of the comment of opcodeToSSLName.
InitName ==
    /\ NoRun
    /\ pc = "call"
    /\ LET rests == UNION {[1..n -> {"a", "B", "2", "_"}] : n \in 1..MaxNameLen}
       IN  fnArg \in {n \in {p \o r : p \in NamePrefixes, r \in rests} : IsOpcodeName(n)}
                         \cup {N_op_sqrt, N_opObjCanSeeObj}
    /\ fnRet = <<>>
\* opcodeToSSLName(funcName) as the assembly loop calls it
CallOpcodeToSSLName ==
    /\ pc = "call"
    /\ fnRet' = <<opcodeToSSLName(fnArg)>>
    /\ pc' = "return"
    /\ UNCHANGED <<runVars, fnArg>>
SpecName == InitName /\ [][CallOpcodeToSSLName]_vars

(***************************************************************************)
(* parseMetaruleCases on its own                                            *)
(***************************************************************************)
MaxCaseLines == 4

\* interpreter_extra.cc from the first line of opMetarule on: up to
\* MaxCaseLines lines of its body, no case key twice.
InitCases ==
    /\ NoRun
    /\ pc = "call"
    /\ LET alphabet == {Case("METARULE_PARTY_COUNT", <<>>),
                        Case("METARULE_FIRST_RUN", <<>>),
                        Default, Break, Close, Code(<<"{">>)}
           bodies == UNION {[1..n -> alphabet] : n \in 1..MaxCaseLines}
           once(b) == \A i, j \in DOMAIN b :
                          (b[i].kind = "case" /\ b[i] = b[j]) => i = j
       IN  fnArg \in {[path |-> "src/interpreter_extra.cc",
                       lines |-> <<FnDef("void", N_opMetarule, "Program*", <<"{">>)>> \o b] :
                          b \in {x \in bodies : once(x)}}
    /\ fnRet = <<>>
\* parseMetaruleCases(file, repoPath) as the scan loop calls it
CallParseMetaruleCases ==
    /\ pc = "call"
    /\ fnRet' = <<parseMetaruleCases(fnArg)>>
    /\ pc' = "return"
    /\ UNCHANGED <<runVars, fnArg>>
SpecCases == InitCases /\ [][CallParseMetaruleCases]_vars

(***************************************************************************)
(* compareIndices of either script on its own                               *)
(***************************************************************************)
MaxDiffEntries == 2

\* Every pair of indexes of up to MaxDiffEntries entries under two names,
\* with and without _meta.shortCommit.
InitDiff ==
    /\ NoRun
    /\ pc = "call"
    /\ LET names == {N_self_obj, N_constructor}
           keys == {k \in UNION {[1..n -> names] : n \in 0..MaxDiffEntries} :
                       \A i, j \in DOMAIN k : k[i] = k[j] => i = j}
           loc(f, a, b) == [file |-> f, startLine |-> a, endLine |-> b,
                            kind |-> "opcode", commit |-> "c1c1"]
           fnInfos == {loc("a", 10, 20), loc("a", 12, 20), loc("a", 10, 21),
                       loc("b", 10, 20)}
           defInfos == {[line |-> l, value |-> v, prefix |-> N_OTHER] :
                           l \in {10, 12}, v \in {"1", "2"}}
           maps(infos) == UNION {{[i \in DOMAIN k |-> [k |-> k[i], v |-> vs[i]]] :
                                     vs \in [DOMAIN k -> infos]} : k \in keys}
           metas == {<<>>, [shortCommit |-> "c1c1"], [shortCommit |-> "main"]}
           fnIndexes == {[meta |-> m, functions |-> f] : m \in metas, f \in maps(fnInfos)}
           defIndexes == {[meta |-> m, defines |-> d] : m \in metas, d \in maps(defInfos)}
       IN  fnArg \in {[g |-> "function", old |-> o, new |-> n] :
                          o \in fnIndexes, n \in fnIndexes}
                     \cup {[g |-> "define", old |-> o, new |-> n] :
                          o \in defIndexes, n \in defIndexes}
    /\ fnRet = <<>>
\* compareIndices(existingIndex, index) as main() calls it
CallCompareIndices ==
    /\ pc = "call"
    /\ fnRet' = <<IF fnArg.g = "function" THEN compareIndices(fnArg.old, fnArg.new)
                  ELSE compareDefineIndices(fnArg.old, fnArg.new)>>
    /\ pc' = "return"
    /\ UNCHANGED <<runVars, fnArg>>
SpecDiff == InitDiff /\ [][CallCompareIndices]_vars

(***************************************************************************)
(* add-fnref-links.js.  A line of a documentation file is a record: kind   *)
(*   "heading"  ## <name> <span ...>...</span> {#<name>}                    *)
(*   "sep"      the line ---                                                *)
(*   "blank"    a line that is empty once trimmed                           *)
(*   "fnref"    a line that includes <FnRef, here <FnRef fn="<name>" />     *)
(*   "text"     any other line                                              *)
(***************************************************************************)
DocLine(kind, name) == [kind |-> kind, name |-> name]
\* The capture of HEADING_PATTERN on the line, <<>> when it fails.
HEADING_PATTERN(line) == IF line.kind = "heading" THEN line.name ELSE <<>>
\* The last line of newLines that is not empty once trimmed, '' if none.
RECURSIVE PrevNonEmpty(_)
PrevNonEmpty(newLines) ==
    IF newLines = <<>> THEN DocLine("blank", <<>>)
    ELSE IF newLines[Len(newLines)].kind # "blank" THEN newLines[Len(newLines)]
    ELSE PrevNonEmpty(SubSeq(newLines, 1, Len(newLines) - 1))
\* The test for a link already in place, never true.
HasFnRefNever(newLines) == FALSE
\* prevLine.includes('<FnRef')
HasFnRef(newLines) == PrevNonEmpty(newLines).kind = "fnref"
\* index.functions[currentFunction] is truthy: an own key of the index or a
\* property inherited from Object.prototype.
InIndex(keys, name) == name \in keys \/ name \in ObjectPrototypeKeys
\* newLines.push(''); newLines.push(`<FnRef fn="${currentFunction}" />`)
PushFnRef(newLines, currentFunction) ==
    newLines \o <<DocLine("blank", <<>>), DocLine("fnref", currentFunction)>>
\* The while loop of processFile from line i on and the handling of the
\* last function; currentFunction <<>> stands for null.
RECURSIVE ProcessLines(_, _, _, _, _)
ProcessLines(lines, keys, i, newLines, currentFunction) ==
    IF i > Len(lines)
    THEN IF /\ currentFunction # <<>> /\ InIndex(keys, currentFunction)
            /\ ~HasFnRef(newLines)
         THEN PushFnRef(newLines, currentFunction)
         ELSE newLines
    ELSE
        LET line == lines[i]
            cur == IF HEADING_PATTERN(line) # <<>> THEN HEADING_PATTERN(line)
                   ELSE currentFunction
        IN  IF line.kind = "sep" /\ cur # <<>>
            THEN ProcessLines(lines, keys, i + 1,
                     Append(IF ~HasFnRef(newLines) /\ InIndex(keys, cur)
                            THEN PushFnRef(newLines, cur) ELSE newLines,
                            line),
                     <<>>)
            ELSE ProcessLines(lines, keys, i + 1, Append(newLines, line), cur)
\* processFile(filename): the lines written back to the file
processFile(lines, keys) == ProcessLines(lines, keys, 1, <<>>, <<>>)

MaxDocLines == 4
MaxPasses == 2

\* A documentation file of up to MaxDocLines lines and an index that has
\* self_obj and lacks foo; fnRet lists the file after each pass.
InitDoc ==
    /\ NoRun
    /\ pc = "call"
    /\ LET alphabet == {DocLine("heading", N_self_obj), DocLine("heading", N_foo),
                        DocLine("heading", N_constructor),
                        DocLine("sep", <<>>), DocLine("blank", <<>>),
                        DocLine("text", <<>>),
                        DocLine("fnref", N_self_obj), DocLine("fnref", N_foo)}
       IN  fnArg \in {[lines |-> l, keys |-> {N_self_obj}] :
                          l \in UNION {[1..n -> alphabet] : n \in 1..MaxDocLines}}
    /\ fnRet = <<>>
\* One run of add-fnref-links.js on the file as the last run left it.
CallProcessFile ==
    /\ pc = "call"
    /\ LET content == IF fnRet = <<>> THEN fnArg.lines ELSE fnRet[Len(fnRet)]
       IN  fnRet' = Append(fnRet, processFile(content, fnArg.keys))
    /\ pc' = IF Len(fnRet) + 1 >= MaxPasses THEN "return" ELSE "call"
    /\ UNCHANGED <<runVars, fnArg>>
SpecDoc == InitDoc /\ [][CallProcessFile]_vars

(***************************************************************************)
(* parseSourceFile on the lines above one handler definition                *)
(***************************************************************************)
MaxAbove == 4
N_sets_x == <<"s","e","t","s"," ","x">>

\* A file of up to MaxAbove lines (annotation, hex address, prose comment,
\* blank, code) followed by the definition of opGetSelf.
InitLook ==
    /\ NoRun
    /\ pc = "call"
    /\ LET alphabet == {Comment(N_self_obj), Comment(N_0x455600), Comment(N_sets_x),
                        Blank, Code(<<>>)}
       IN  fnArg \in {[path |-> "src/interpreter_extra.cc",
                       lines |-> above \o <<FnDef("void", N_opGetSelf, "Program*", <<"{", "}">>)>>] :
                          above \in UNION {[1..n -> alphabet] : n \in 0..MaxAbove}}
    /\ fnRet = <<>>
\* parseSourceFile(file, repoPath) as the scan loop calls it
CallParseSourceFile ==
    /\ pc = "call"
    /\ fnRet' = <<parseSourceFile(fnArg)>>
    /\ pc' = "return"
    /\ UNCHANGED <<runVars, fnArg>>
SpecLook == InitLook /\ [][CallParseSourceFile]_vars

(***************************************************************************)
(* parseOpcodeRegistrations on a file of registration call sites            *)
(***************************************************************************)
MaxRegLines == 2

\* A file of up to MaxRegLines call sites interpreterRegisterOpcode(K, f),
\* each followed by nothing or by "; ", and then by no comment or by a
\* comment // op_<name>.
InitReg ==
    /\ NoRun
    /\ pc = "call"
    /\ LET alphabet == {Reg(key, name, sep, text) :
                            key \in {"OPCODE_GET_SELF", "OPCODE_SQRT"},
                            name \in {N_opGetSelf, N_op_sqrt},
                            sep \in {<<>>, <<";", " ">>},
                            text \in {<<>>, N_op_self_obj, N_op_dude_obj}}
       IN  fnArg \in {[path |-> "src/interpreter_extra.cc", lines |-> lines] :
                          lines \in UNION {[1..n -> alphabet] : n \in 0..MaxRegLines}}
    /\ fnRet = <<>>
\* parseOpcodeRegistrations(extraFile, repoPath)
CallParseOpcodeRegistrations ==
    /\ pc = "call"
    /\ fnRet' = <<parseOpcodeRegistrations(fnArg)>>
    /\ pc' = "return"
    /\ UNCHANGED <<runVars, fnArg>>
SpecReg == InitReg /\ [][CallParseOpcodeRegistrations]_vars

(***************************************************************************)
(* Properties                                                              *)
(***************************************************************************)
\* The diff of the run, read field by field.
DiffEmpty ==
    /\ changes.added = <<>> /\ changes.removed = <<>> /\ changes.modified = <<>>
    /\ ~changes.commitChanged
\* The run of main() has returned or exited.
RunEnded == pc = "done"
\* The run wrote the index it assembled over the artifact.
Overwritten == writes = 1 /\ artifact = JSONstringify(index)
\* The lines that, lowercased, read "y" or "yes".
Consents ==
    {<<c>> : c \in {"y", "Y"}} \cup
    {<<c1, c2, c3>> : c1 \in {"y", "Y"}, c2 \in {"e", "E"}, c3 \in {"s", "S"}}

\* C1: in a run of either generator started with --dry-run the artifact on
\* disk stays the artifact the run started with, at every step and at the
\* end, whatever the diff is and whether or not --yes is given.
C1_DryRunNeverWrites == dryRun => artifact = artifactAtStart /\ writes = 0
\* A dry run with --yes and a non-empty diff has ended.
C1_Witness ==
    RunEnded /\ exitCode = 0 /\ dryRun /\ autoConfirm /\ ~DiffEmpty
    /\ artifact # JSONstringify(index)

\* C2: a generation run without --dry-run whose diff is non-empty ends with
\* the artifact overwritten exactly when --yes was given, and then without a
\* prompt, or the line typed at the prompt reads "y" or "yes" once
\* lowercased; after any other line the artifact is the one of the start.
C2_WriteIffConfirmed ==
    (RunEnded /\ ~dryRun /\ ~DiffEmpty) =>
        /\ Overwritten <=> (autoConfirm \/ (prompted /\ answer \in Consents))
        /\ autoConfirm => ~prompted
        /\ ~autoConfirm => prompted
        /\ ~Overwritten => (artifact = artifactAtStart /\ writes = 0)
\* The prompt was answered YES and the artifact was overwritten.
C2_Witness ==
    RunEnded /\ ~dryRun /\ ~DiffEmpty /\ prompted /\ answer = N_YES /\ Overwritten
    /\ artifact # artifactAtStart

\* C3: a run whose diff is empty never reaches the confirmation step and
\* ends without a prompt and without a write, also under --yes.
C3_EmptyDiffShortCircuits ==
    /\ pc \in {"gate", "prompt", "write"} => ~DiffEmpty
    /\ (RunEnded /\ exitCode = 0 /\ ~validateOnly /\ DiffEmpty) =>
           ~prompted /\ writes = 0 /\ artifact = artifactAtStart
\* A run with --yes computed an empty diff against the index of an earlier
\* run and has ended.
C3_Witness ==
    /\ RunEnded /\ exitCode = 0 /\ ~validateOnly /\ autoConfirm /\ ~dryRun
    /\ DiffEmpty /\ artifact.kind = "json" /\ index # EmptyIndex(gen)

\* C4: after a run that wrote the artifact, a run on the same snapshot at
\* the same revision computes an empty diff, never reaches the confirmation
\* step and leaves the artifact as it was.
SameSnapshotAgain == writes = 0 /\ persistedFrom # NoCheckout /\ checkout = persistedFrom
C4_Idempotent ==
    SameSnapshotAgain =>
        /\ pc \notin {"gate", "prompt", "write"}
        /\ DiffEmpty
        /\ artifact = artifactAtStart
        /\ RunEnded => exitCode = 0
\* The second run on the snapshot has ended, at a later time than the first.
C4_Witness ==
    /\ SameSnapshotAgain /\ RunEnded /\ exitCode = 0
    /\ artifact.data.meta.generatedAt < now

\* The location of an index entry, read from its three fields.
LocationOf(info) == <<info.file, info.startLine, info.endLine>>
\* The names of the entries with cppName at a location.
AliasNamesAt(idx, loc) ==
    {idx.functions[i].k : i \in {j \in DOMAIN idx.functions :
        /\ "cppName" \in DOMAIN idx.functions[j].v
        /\ LocationOf(idx.functions[j].v) = loc}}
AllLocations(idx) == {LocationOf(idx.functions[i].v) : i \in DOMAIN idx.functions}

\* C6: detectDuplicates reports a location exactly when two or more entries
\* with cppName have it, and the group reported for a location lists every
\* one of their names, each once.
C6_DuplicatesExact ==
    pc = "return" =>
        LET dups == fnRet[1]
        IN  /\ \A loc \in AllLocations(fnArg) :
                   (\E i \in DOMAIN dups : dups[i].k = loc)
                       <=> Cardinality(AliasNamesAt(fnArg, loc)) >= 2
            /\ \A i \in DOMAIN dups :
                   /\ dups[i].k \in AllLocations(fnArg)
                   /\ Range(dups[i].v.names) = AliasNamesAt(fnArg, dups[i].k)
                   /\ Len(dups[i].v.names) = Cardinality(AliasNamesAt(fnArg, dups[i].k))
\* A location is reported with two names while a third entry, without
\* cppName, has the same location.
C6_Witness ==
    /\ pc = "return"
    /\ \E i \in DOMAIN fnRet[1] :
         /\ Len(fnRet[1][i].v.names) = 2
         /\ \E j \in DOMAIN fnArg.functions :
              /\ "cppName" \notin DOMAIN fnArg.functions[j].v
              /\ LocationOf(fnArg.functions[j].v) = fnRet[1][i].k

\* The run has assembled its function index.
Assembled ==
    /\ gen = "function"
    /\ pc \in {"assembled", "compare", "gate", "prompt", "write", "done"}
    /\ fileIdx > 0
\* The index entries created as the alias of native handler f.
AliasEntriesOf(f) ==
    {i \in DOMAIN index.functions :
        /\ index.functions[i].v.kind # "metarule"
        /\ "cppName" \in DOMAIN index.functions[i].v
        /\ index.functions[i].v.cppName = f}

\* C7: for every scanned handler that the override table names, the alias
\* entry of the assembled index is keyed by the override value and by no
\* other name, whatever annotation the scan found for the handler.
C7_OverrideWins ==
    Assembled =>
        \A o \in DOMAIN SSL_COMMENT_OVERRIDES :
            LET f == SSL_COMMENT_OVERRIDES[o].k
                sslName == SSL_COMMENT_OVERRIDES[o].v
            IN  Has(allFunctions, f) =>
                    /\ Has(index.functions, sslName)
                    /\ \A i \in AliasEntriesOf(f) : index.functions[i].k = sslName
\* opSuccess was scanned with the comment "success" and the index holds
\* is_success for it.
C7_Witness ==
    /\ Assembled
    /\ Has(allSslNames, N_opSuccess) /\ Get(allSslNames, N_opSuccess) = N_success
    /\ \E i \in AliasEntriesOf(N_opSuccess) :
           index.functions[i].k = Get(SSL_COMMENT_OVERRIDES, N_opSuccess)

\* C8: during the scan an annotation recorded for a native name is never
\* replaced by one discovered later.
C8_FirstAnnotationKept ==
    [][(pc = "scan" /\ pc' = "scan") =>
          \A f \in Keys(allSslNames) :
              Has(allSslNames', f) /\ Get(allSslNames', f) = Get(allSslNames, f)]_vars

\* C9: when the resolved alias of a scanned handler is its native name in
\* lower case, the assembled index holds no entry created as its alias.
C9_NoSelfAlias ==
    Assembled =>
        \A f \in Keys(allFunctions) :
            (IsHandlerName(f) /\ ResolveAlias(f, allSslNames) = toLowerCase(f))
                => AliasEntriesOf(f) = {}
\* opFoo was scanned with the comment "opfoo" and the index has no such key.
C9_Witness ==
    /\ Assembled
    /\ Has(allFunctions, N_opFoo)
    /\ ResolveAlias(N_opFoo, allSslNames) = N_opfoo
    /\ Has(index.functions, N_opFoo) /\ ~Has(index.functions, N_opfoo)

\* The braces from line i (1-indexed) on, each with the line it stands on.
RECURSIVE FlatBraces(_, _)
FlatBraces(lines, i) ==
    IF i > Len(lines) THEN <<>>
    ELSE [j \in 1..Len(lines[i].braces) |-> [line |-> i, ch |-> lines[i].braces[j]]]
             \o FlatBraces(lines, i + 1)
\* The running brace count after k braces.
CountAfter(ev, k) ==
    Cardinality({j \in 1..k : ev[j].ch = "{"}) - Cardinality({j \in 1..k : ev[j].ch = "}"})
\* The braces at which the count is zero after having been positive.
Returns(ev) ==
    {k \in 1..Len(ev) : CountAfter(ev, k) = 0 /\ \E j \in 1..(k - 1) : CountAfter(ev, j) > 0}
FirstReturn(ev) == CHOOSE k \in Returns(ev) : \A m \in Returns(ev) : k <= m
\* The braces start with n opening braces followed by n closing braces.
NestedBody(ev, n) ==
    /\ n >= 1 /\ Len(ev) >= 2 * n
    /\ \A j \in 1..n : ev[j].ch = "{"
    /\ \A j \in (n + 1)..(2 * n) : ev[j].ch = "}"

\* C10: findFunctionEnd returns the 1-indexed line on which the brace count
\* from the start line first returns to zero after having been positive; for
\* N opening braces followed by N closing braces that is the line of the
\* Nth closing brace.
C10_ExtentIsFirstReturn ==
    pc = "return" =>
        LET ev == FlatBraces(fnArg.lines, fnArg.startLine + 1)
        IN  /\ Returns(ev) # {} => fnRet[1] = ev[FirstReturn(ev)].line
            /\ \A n \in 1..Len(ev) : NestedBody(ev, n) => fnRet[1] = ev[2 * n].line
\* Two opening braces on the second line of three, two closing braces on the
\* third: the extent ends on line 3.
C10_Witness ==
    /\ pc = "return"
    /\ fnArg.startLine = 1 /\ Len(fnArg.lines) = 3
    /\ NestedBody(FlatBraces(fnArg.lines, 2), 2)
    /\ fnArg.lines[2].braces = <<"{", "{">>
    /\ fnRet[1] = 3

\* The entries of the index main() assembled from the scanned file.
ScanAssembled == gen = "function" /\ pc = "assembled"
EntriesOf(idx) == {idx.functions[i] : i \in DOMAIN idx.functions}
ScannedLines == checkout.files[1].lines

\* C11: every entry of the assembled index, native, alias or dispatch case,
\* has startLine <= endLine, also when findFunctionEnd finds no balancing
\* brace and answers min(start index + 50, number of lines) and when the
\* line after a case line is a lone closing brace.
C11_StartBeforeEnd ==
    ScanAssembled => \A e \in EntriesOf(index) : e.v.startLine <= e.v.endLine
\* A handler without a balancing brace in a file longer than the window,
\* and a dispatch case whose next line is a lone closing brace.
C11_Witness ==
    /\ ScanAssembled
    /\ \E e \in EntriesOf(index) :
           /\ e.v.kind = "opcode"
           /\ ScanBraces(ScannedLines, e.v.startLine - 1, 1, 0, FALSE) = 0
           /\ e.v.endLine = e.v.startLine - 1 + FallbackWindow
           /\ e.v.endLine < Len(ScannedLines)
    /\ \E e \in EntriesOf(index) :
           /\ e.v.kind = "metarule"
           /\ ScannedLines[e.v.startLine + 1].kind = "close"
           /\ e.v.endLine = e.v.startLine

\* C12: after assembly the index holds, for every native name f that
\* parseSourceFile recorded, an entry keyed f with f's own file, startLine,
\* endLine and kind and without cppName, whatever alias and dispatch-case
\* entries the assembly also added.
C12_NativeEntryKept ==
    ScanAssembled =>
        \A i \in DOMAIN allFunctions :
            LET f == allFunctions[i].k
                own == allFunctions[i].v
            IN  /\ Has(index.functions, f)
                /\ LET e == Get(index.functions, f)
                   IN  /\ e.file = own.file /\ e.startLine = own.startLine
                       /\ e.endLine = own.endLine /\ e.kind = own.kind
                       /\ "cppName" \notin DOMAIN e

\* C13: every entry of the assembled index with a cppName that is not a
\* dispatch-case entry names a native handler f recorded by the scan, and
\* its file, startLine and endLine are those of the entry keyed f.
C13_AliasPointsToNative ==
    ScanAssembled =>
        \A a \in EntriesOf(index) :
            ("cppName" \in DOMAIN a.v /\ a.v.kind # "metarule") =>
                /\ Has(allFunctions, a.v.cppName)
                /\ Has(index.functions, a.v.cppName)
                /\ LocationOf(a.v) = LocationOf(Get(index.functions, a.v.cppName))

\* The prefix of an accepted name and what follows it.
PrefixOf(n) ==
    CHOOSE p \in NamePrefixes :
        IF p = <<"o","p">> THEN IsCamelOpName(n) ELSE IsSnakeName(n, p)
RemainderOf(n) == SubSeq(n, Len(PrefixOf(n)) + 1, Len(n))
\* The positions of a lower-case letter followed by an upper-case letter.
Boundaries(r) == {k \in 1..(Len(r) - 1) : IsLower(r[k]) /\ IsUpper(r[k + 1])}
\* Where character k of the remainder stands once every boundary before it
\* has received a separator.
ShiftedPos(r, k) == k + Cardinality({b \in Boundaries(r) : b < k})

\* C14: for every native name the opcode patterns accept, opcodeToSSLName
\* returns the name without its prefix (_op_, op_, mf_ or op): the result
\* is not empty, holds no upper-case letter, and is the remainder in lower
\* case with one underscore inserted at every boundary between a
\* lower-case and an upper-case letter and nothing else added or dropped.
C14_PrefixStrippedSnakeCase ==
    pc = "return" =>
        LET r == RemainderOf(fnArg)
            out == fnRet[1]
        IN  /\ out # <<>>
            /\ \A k \in DOMAIN out : ~IsUpper(out[k])
            /\ Len(out) = Len(r) + Cardinality(Boundaries(r))
            /\ \A k \in DOMAIN r : out[ShiftedPos(r, k)] = toLowerCaseChar(r[k])
            /\ \A b \in Boundaries(r) : out[ShiftedPos(r, b) + 1] = "_"
\* opObjCanSeeObj gave obj_can_see_obj (three boundaries).
C14_Witness ==
    /\ pc = "return"
    /\ fnArg = N_opObjCanSeeObj
    /\ Cardinality(Boundaries(RemainderOf(fnArg))) = 3
    /\ fnRet[1] = N_obj_can_see_obj

\* The braces opened and not closed on lines a..b.
RECURSIVE OpenBraces(_, _, _)
OpenBraces(lines, a, b) ==
    IF a > b THEN 0 ELSE BraceDelta(lines[a]) + OpenBraces(lines, a + 1, b)
\* Line c lies inside the routine that starts on line 1.
InsideRoutine(lines, c) == \A k \in 1..(c - 1) : OpenBraces(lines, 1, k) > 0
\* The lines after case line c that end its extent: a case, default or
\* break line, or the lone brace that closes the block the case stands in.
\* siblingsOnly leaves out the case, default and break lines of nested
\* blocks.
ExtentEnds(lines, c, siblingsOnly) ==
    {j \in (c + 1)..Len(lines) :
        \/ /\ lines[j].kind \in {"case", "default", "break"}
           /\ siblingsOnly => OpenBraces(lines, c + 1, j - 1) = 0
        \/ /\ lines[j].kind = "close"
           /\ OpenBraces(lines, c + 1, j - 1) = 0}
FirstOf(S) == CHOOSE j \in S : \A k \in S : j <= k
\* The end lines the extent of case line c may have: the first ending line
\* under either reading of sibling; for a closing brace, that line or the
\* line before it.
ExtentEndLines(lines, c) ==
    UNION {LET t == FirstOf(ExtentEnds(lines, c, sib))
           IN  IF lines[t].kind = "close" THEN {t - 1, t} ELSE {t} :
               sib \in BOOLEAN}

\* C15: for every case line c inside opMetarule whose key is in
\* METARULE_SSL_NAMES, the result holds an entry of kind metarule under the
\* table's name with startLine = c, and its endLine is the first following
\* sibling case, default or break line or the close of the enclosing
\* switch block, whichever comes first.
C15_CaseExtent ==
    pc = "return" =>
        \A c \in DOMAIN fnArg.lines :
            LET line == fnArg.lines[c]
            IN  (/\ line.kind = "case" /\ Has(METARULE_SSL_NAMES, line.key)
                 /\ InsideRoutine(fnArg.lines, c)) =>
                    /\ Has(fnRet[1], Get(METARULE_SSL_NAMES, line.key))
                    /\ LET e == Get(fnRet[1], Get(METARULE_SSL_NAMES, line.key))
                       IN  /\ e.kind = "metarule" /\ e.startLine = c
                           /\ ExtentEnds(fnArg.lines, c, TRUE) # {} =>
                                  e.endLine \in ExtentEndLines(fnArg.lines, c)

\* The entries of a compared index and the fields compareIndices looks at.
EntryMap(g, idx) == IF g = "function" THEN idx.functions ELSE idx.defines
LocationFields(g, info) ==
    IF g = "function" THEN <<info.file, info.startLine, info.endLine>>
    ELSE <<info.line, info.value>>
\* _meta.shortCommit as a list: empty when the key is missing.
ShortCommitValue(idx) ==
    IF "shortCommit" \in DOMAIN idx.meta THEN <<idx.meta.shortCommit>> ELSE <<>>
NoRepeat(list) == \A i, j \in DOMAIN list : list[i] = list[j] => i = j

\* C16: compareIndices(old, new) returns as added exactly the keys of new
\* absent from old, as removed exactly the keys of old absent from new, as
\* modified exactly the shared keys whose location fields differ (file,
\* startLine, endLine for functions; line, value for defines), each key
\* once and in one list only, and commitChanged exactly when the two
\* shortCommit values differ.
C16_DiffExact ==
    pc = "return" =>
        LET old == EntryMap(fnArg.g, fnArg.old)
            new == EntryMap(fnArg.g, fnArg.new)
            diff == fnRet[1]
            modifiedNames == [i \in DOMAIN diff.modified |-> diff.modified[i].name]
        IN  /\ Range(diff.added) = Keys(new) \ Keys(old)
            /\ Range(diff.removed) = Keys(old) \ Keys(new)
            /\ Range(modifiedNames) =
                   {k \in Keys(old) \cap Keys(new) :
                       LocationFields(fnArg.g, Get(old, k))
                           # LocationFields(fnArg.g, Get(new, k))}
            /\ NoRepeat(diff.added \o diff.removed \o modifiedNames)
            /\ diff.commitChanged <=>
                   ShortCommitValue(fnArg.old) # ShortCommitValue(fnArg.new)

\* C17: when the artifact on disk is absent or cannot be parsed, the
\* comparison step of a generation run takes the empty index as baseline:
\* it reports every entry of the new index as added, nothing as removed or
\* modified, does not end the run, and goes on to the update gate.
C17_MissingBaselineAllAdded ==
    [][(pc = "compare" /\ artifact.kind # "json") =>
          /\ changes'.added = NamesOf(EntryMap(gen, index))
          /\ changes'.removed = <<>> /\ changes'.modified = <<>>
          /\ pc' = "gate" /\ exitCode' = -1]_vars

\* Two or more entries with cppName share a location of the index.
HasConflict(idx) ==
    \E loc \in AllLocations(idx) : Cardinality(AliasNamesAt(idx, loc)) >= 2

GenerationRun == ~(gen = "function" /\ validateOnly)
\* The run ended without the sources: git clone threw, or fetchFromGitHub
\* rejected.
FetchFailed == checkout.files = <<>>
\* The run assembled an index in which detectDuplicates had a conflict to find.
ConflictDetected == gen = "function" /\ index.meta # <<>> /\ HasConflict(index)

C20_MalformedIsFatal == malformed => writes = 0 /\ artifact = artifactAtStart

\* C21: the artifact is written at most once in a run, by the step that
\* ends the run, and only after the sources were obtained, the index was
\* built, the duplicate check passed and the diff was not empty; no other
\* step changes the artifact, and the write replaces the whole artifact by
\* the assembled index.
C21_SingleTerminalWrite ==
    [][/\ writes' = writes + 1 =>
              /\ writes = 0 /\ pc = "write" /\ pc' = "done"
              /\ checkout.files # <<>> /\ index.meta # <<>>
              /\ gen = "function" =>
                     fileIdx = Len(checkout.files) /\ ~HasConflict(index)
              /\ ~DiffEmpty
              /\ artifact' = JSONstringify(index)
       /\ writes' # writes + 1 => artifact' = artifact]_vars
\* A run has written over an artifact that held a key the new index lacks.
C21_Witness ==
    /\ gen = "function" /\ RunEnded /\ writes = 1
    /\ artifactAtStart.kind = "json"
    /\ \E k \in Keys(artifactAtStart.data.functions) :
           ~Has(artifact.data.functions, k)

\* The scan loop of main() over the files in the given order, and the index
\* assembled from what it gathered.
RECURSIVE ScanFold(_, _, _)
ScanFold(files, i, st) ==
    IF i > Len(files) THEN st
    ELSE LET file == files[i]
             parsed == parseSourceFile(file)
             regs == parseOpcodeRegistrations(file)
         IN  ScanFold(files, i + 1,
                 [fns |-> ObjectAssign(st.fns, parsed.functions),
                  ssl |-> MergeSslNames(
                              MergeSslNames(st.ssl, parsed.sslNamesFromComments),
                              regs.sslNames),
                  meta |-> IF EndsWithInterpreterExtra(file.path)
                           THEN ObjectAssign(st.meta, parseMetaruleCases(file))
                           ELSE st.meta])
IndexFrom(files, rev, time) ==
    LET st == ScanFold(files, 1, [fns |-> <<>>, ssl |-> <<>>, meta |-> <<>>])
    IN  BuildFunctionIndex(st.fns, st.ssl, st.meta, rev, time)
\* The orders in which the files of a scan can be delivered.
ScanOrders(files) ==
    {p \in [DOMAIN files -> Range(files)] : Range(p) = Range(files)}

\* C22: for a fixed set of source files the assembled index holds the same
\* entries (names, locations, kinds, cppName) whatever the order in which
\* the scan delivers the files.
C22_ScanOrderIrrelevant ==
    Assembled =>
        \A p \in ScanOrders(checkout.files) :
            EntriesOf(IndexFrom(p, checkout.rev, now)) = EntriesOf(index)

\* C23: in every index a run has built, the count recorded in _meta equals
\* the number of keys of the map: functionCount for functions, defineCount
\* for defines.
C23_CountMatchesEntries ==
    index.meta # <<>> =>
        IF gen = "function"
        THEN index.meta.functionCount = Cardinality(Keys(index.functions))
        ELSE index.meta.defineCount = Cardinality(Keys(index.defines))

\* The lines of the section of the heading at line p: those after it up to
\* the next separator or heading.
SectionOf(doc, p) ==
    {q \in (p + 1)..Len(doc) :
        \A r \in (p + 1)..q : doc[r].kind \notin {"sep", "heading"}}
\* The number of <FnRef> lines for a name.
LinkCount(doc, name) ==
    Cardinality({q \in DOMAIN doc : doc[q] = DocLine("fnref", name)})

\* C24: after add-fnref-links has processed a file, every function heading
\* whose name is a key of the index has a <FnRef> line for that name in its
\* section, and no <FnRef> line was added for a name that is not a key of
\* the index.
C24_HeadingsLinked ==
    Len(fnRet) >= 1 =>
        LET doc == fnRet[1]
        IN  /\ \A p \in DOMAIN doc :
                   (doc[p].kind = "heading" /\ doc[p].name \in fnArg.keys) =>
                       \E q \in SectionOf(doc, p) :
                           doc[q] = DocLine("fnref", doc[p].name)
            /\ \A name \in {N_foo, N_constructor} :
                   LinkCount(doc, name) = LinkCount(fnArg.lines, name)

\* C30: processing a file a second time against the same index adds no
\* <FnRef> line and writes back the content the first processing left,
\* for sections ended by a --- line and for a last section without one.
C30_SecondPassChangesNothing == Len(fnRet) >= 2 => fnRet[2] = fnRet[1]
\* The first pass added a link before a separator and one at the end of the
\* file, to a file that had none; the second pass has run.
C30_Witness ==
    /\ Len(fnRet) = 2
    /\ \A k \in DOMAIN fnArg.lines : fnArg.lines[k].kind # "fnref"
    /\ LET doc == fnRet[1]
       IN  /\ \E q \in 2..Len(doc) :
                  doc[q].kind = "sep" /\ doc[q - 1] = DocLine("fnref", N_self_obj)
           /\ doc[Len(doc)] = DocLine("fnref", N_self_obj)
           /\ LinkCount(doc, N_self_obj) = 2

\* A comment that consists of one lower-case identifier and nothing else.
PureAnnotation(line) ==
    /\ line.kind = "comment" /\ line.text # <<>> /\ IsLower(line.text[1])
    /\ \A k \in DOMAIN line.text : IsLowerWord(line.text[k])
\* The distances, up to three lines, at which a pure annotation stands above
\* line i with only blank and comment lines between.
AnnotationsAbove(lines, i) ==
    {d \in 1..3 :
        /\ i - d >= 1 /\ PureAnnotation(lines[i - d])
        /\ \A m \in 1..(d - 1) : lines[i - m].kind \in {"blank", "comment"}}

\* C25: for the handler defined on line i the comment-derived alias is the
\* identifier of the nearest pure annotation among the three lines above
\* i that is separated from i by blank and comment lines only; when there
\* is none (a code line in between, or a distance above three) the handler
\* has no comment-derived alias.
C25_NearestAnnotation ==
    pc = "return" =>
        LET i == Len(fnArg.lines)
            found == AnnotationsAbove(fnArg.lines, i)
            names == fnRet[1].sslNamesFromComments
        IN  IF found = {} THEN ~Has(names, N_opGetSelf)
            ELSE /\ Has(names, N_opGetSelf)
                 /\ Get(names, N_opGetSelf) = fnArg.lines[i - FirstOf(found)].text

\* Line i is the last call site of the file for its opcode and its handler.
LastCallSite(lines, i) ==
    \A j \in (i + 1)..Len(lines) :
        lines[j].key # lines[i].key /\ lines[j].name # lines[i].name

\* C26: a call site interpreterRegisterOpcode(K, f); with the trailing
\* comment // op_<name> on the same line makes parseOpcodeRegistrations
\* record the binding K -> f and <name> as the registration-derived alias
\* of f.
C26_TrailingCommentRecorded ==
    pc = "return" =>
        \A i \in DOMAIN fnArg.lines :
            LET line == fnArg.lines[i]
            IN  (/\ LastCallSite(fnArg.lines, i)
                 /\ line.sep = <<";", " ">>
                 /\ startsWith(line.text, <<"o","p","_">>))
                => /\ Has(fnRet[1].mappings, line.key)
                   /\ Get(fnRet[1].mappings, line.key) = line.name
                   /\ Has(fnRet[1].sslNames, line.name)
                   /\ Get(fnRet[1].sslNames, line.name) = slice(line.text, 3)

\* The entries of idx that detectDuplicates looks at.
AliasBearing(idx) == {e \in EntriesOf(idx) : "cppName" \in DOMAIN e.v}

\* C27: in a generation run the assembled index never holds two entries
\* with a cppName that have the same file, startLine and endLine, and
\* detectDuplicates finds nothing in it.
C27_FreshIndexHasNoConflict ==
    (gen = "function" /\ GenerationRun) =>
        /\ \A e1, e2 \in AliasBearing(index) :
               (/\ e1.v.file = e2.v.file /\ e1.v.startLine = e2.v.startLine
                /\ e1.v.endLine = e2.v.endLine) => e1.k = e2.k
        /\ detectDuplicates(index) = <<>>
\* The index holds the alias of a handler, a dispatch-case entry of the same
\* file, and the native entry at the alias's location.
C27_Witness ==
    /\ ScanAssembled
    /\ \E a, c \in AliasBearing(index) :
         /\ a.v.kind = "opcode" /\ c.v.kind = "metarule" /\ a.v.file = c.v.file
         /\ \E n \in EntriesOf(index) :
              /\ "cppName" \notin DOMAIN n.v /\ n.k = a.v.cppName
              /\ n.v.startLine = a.v.startLine /\ n.v.endLine = a.v.endLine

\* The positions in allFunctions of the handlers whose alias entry is keyed a.
ClaimantsOf(a) ==
    {i \in DOMAIN allFunctions :
        LET f == allFunctions[i].k
        IN  /\ IsHandlerName(f)
            /\ ResolveAlias(f, allSslNames) = a
            /\ a # <<>> /\ a # toLowerCase(f)}
\* The names claimed by two handlers, or by a handler and a dispatch case.
ClashNames ==
    {a \in {ResolveAlias(allFunctions[i].k, allSslNames) : i \in DOMAIN allFunctions} :
        \/ Cardinality(ClaimantsOf(a)) >= 2
        \/ ClaimantsOf(a) # {} /\ Has(allMetaruleFunctions, a)}
LastOf(S) == CHOOSE i \in S : \A j \in S : j <= i

\* C28: when two handlers resolve to one alias, or a dispatch-case name
\* equals a handler's alias, the assembled index holds one entry under that
\* name: the dispatch-case entry when there is one, otherwise the alias
\* entry of the handler processed last; detectDuplicates reports no
\* conflict that names it.
C28_LastClaimantWins ==
    (gen = "function" /\ pc = "assembled") =>
        \A a \in ClashNames :
            /\ Cardinality({i \in DOMAIN index.functions : index.functions[i].k = a}) = 1
            /\ LET e == Get(index.functions, a)
               IN  IF Has(allMetaruleFunctions, a)
                   THEN /\ e.kind = "metarule"
                        /\ e.startLine = Get(allMetaruleFunctions, a).startLine
                   ELSE LET last == allFunctions[LastOf(ClaimantsOf(a))]
                        IN  /\ "cppName" \in DOMAIN e /\ e.cppName = last.k
                            /\ e.startLine = last.v.startLine
                            /\ e.endLine = last.v.endLine
            /\ \A d \in DOMAIN detectDuplicates(index) :
                   a \notin Range(detectDuplicates(index)[d].v.names)

\* The override of f, or without one its annotation, is f in lower case.
NamedAsItself(f) ==
    IF Has(SSL_COMMENT_OVERRIDES, f)
    THEN Get(SSL_COMMENT_OVERRIDES, f) = toLowerCase(f)
    ELSE Has(allSslNames, f) /\ Get(allSslNames, f) = toLowerCase(f)
\* The entries of the index made from handler f: its native entry and the
\* entries that name it as cppName.
EntriesFrom(f) ==
    {e \in EntriesOf(index) :
        /\ e.v.kind # "metarule"
        /\ IF "cppName" \in DOMAIN e.v THEN e.v.cppName = f
           ELSE /\ e.v.file = Get(allFunctions, f).file
                /\ e.v.startLine = Get(allFunctions, f).startLine
                /\ e.v.endLine = Get(allFunctions, f).endLine}

\* C29: for a scanned handler whose override or annotation equals its
\* lower-cased native name the assembled index holds no alias entry: every
\* entry made from the handler is keyed by the native name, and the name
\* derived from the native name keys no entry of it.
C29_NoFallbackAlias ==
    (gen = "function" /\ pc = "assembled") =>
        \A f \in Keys(allFunctions) :
            (IsHandlerName(f) /\ NamedAsItself(f)) =>
                /\ \A e \in EntriesFrom(f) : e.k = f /\ "cppName" \notin DOMAIN e.v
                /\ Has(index.functions, opcodeToSSLName(f)) =>
                       LET e == Get(index.functions, opcodeToSSLName(f))
                       IN  "cppName" \in DOMAIN e => e.cppName # f
\* op_sqrt was scanned below the annotation op_sqrt; the index holds it
\* under op_sqrt and has no key sqrt.
C29_Witness ==
    /\ ScanAssembled
    /\ Has(allFunctions, N_op_sqrt) /\ NamedAsItself(N_op_sqrt)
    /\ opcodeToSSLName(N_op_sqrt) = <<"s","q","r","t">>
    /\ Has(index.functions, N_op_sqrt)
    /\ "cppName" \notin DOMAIN Get(index.functions, N_op_sqrt)
    /\ ~Has(index.functions, <<"s","q","r","t">>)

====
